---------------------------- MODULE Spec2Model ----------------------------
(***************************************************************************)
(* Model of the HarperDB node client: the request executor                 *)
(* (HarperDBClient: cache store, retry interceptor, executeQuery) and the  *)
(* data operations of HarperDB built on it.                                *)
(*                                                                         *)
(* The module holds several specifications over one set of variables:      *)
(*   SpecRetry  the axios response interceptor (retry policy)              *)
(*   SpecKey    generateCacheKey / normalizeBody as pure functions         *)
(*   SpecCache  the cache store: setCache, getCached, invalidateTableCache,*)
(*              clearCache and the cleanup timer, called in any order      *)
(*   Spec       the data operations select, insert, update, upsert and     *)
(*              delete of one caller, with setSchema, clearCache,          *)
(*              invalidateTableCache, the cleanup timer and the clock      *)
(*   SpecBulk   one bulk write: insertMany, insertManyParallel,            *)
(*              updateMany, upsertMany or deleteMany                       *)
(*   SpecParallel  one call of parallel with its operations                *)
(*   SpecExec   executeQuery called through the read methods and insert    *)
(*   SpecApply  applySchema with a concurrent update                        *)
(*   SpecRace   select, update and updateByValue of two callers            *)
(*   SpecBatch  one call of batch with its operations                      *)
(*   SpecTxn    one call of transaction with its operations                *)
(*   SpecCacheFair, SpecBulkFair  SpecCache with the timer firing, and     *)
(*              SpecBulk with every request settling                       *)
(* Each specification leaves the variables of the other parts unchanged.   *)
(***************************************************************************)
EXTENDS Integers, Sequences, FiniteSets, TLC

VARIABLES
    maxRetries,     \* this.config.maxRetries
    retryDelay,     \* this.config.retryDelay
    req,            \* the requests handed to the axios instance, by id
    keyIn,          \* the two (operation, body) pairs given to generateCacheKey
    keyOut,         \* the two keys it returned (<<>> before the calls)
    enableCache,    \* this.config.enableCache
    maxCacheSize,   \* this.config.maxCacheSize
    cacheTTL,       \* this.config.cacheTTL
    schema,         \* this.config.schema
    now,            \* Date.now()
    queryCache,     \* this.queryCache: the entries in Map (insertion) order
    obs,            \* the last cache-store call and what it returned
    calls,          \* the data operations in progress, by caller
    stale,          \* keys of entries that outlived a successful write to their table
    last,           \* the data operation that returned last, and its result
    job,            \* the bulk write in progress
    par,            \* the parallel() call in progress
    exec,           \* the executeQuery call in progress, or the last one
    apply,          \* the applySchema call in progress
    race,           \* the data operations of two callers sharing the store
    bat,            \* the batch() call in progress
    txn             \* the transaction() call in progress

retryVars  == <<maxRetries, retryDelay, req>>
keyVars    == <<keyIn, keyOut>>
configVars == <<enableCache, maxCacheSize, cacheTTL>>
cacheVars  == <<enableCache, maxCacheSize, cacheTTL, schema, now, queryCache, obs>>
clientVars == <<calls, stale, last>>
bulkVars   == <<job>>
parVars    == <<par>>
execVars   == <<exec>>
applyVars  == <<apply>>
raceVars   == <<race>>
helperVars == <<bat, txn>>

\* what the actions of each part leave unchanged
notRetry  == <<keyVars, cacheVars, clientVars, bulkVars, parVars, execVars, applyVars, raceVars, helperVars>>
notKey    == <<retryVars, cacheVars, clientVars, bulkVars, parVars, execVars, applyVars, raceVars, helperVars>>
notCache  == <<retryVars, keyVars, clientVars, bulkVars, parVars, execVars, applyVars, raceVars, helperVars>>
notClient == <<retryVars, keyVars, bulkVars, parVars, execVars, applyVars, raceVars, helperVars>>
notBulk   == <<retryVars, keyVars, clientVars, parVars, execVars, applyVars, raceVars, helperVars>>
notPar    == <<retryVars, keyVars, cacheVars, clientVars, bulkVars, execVars, applyVars, raceVars, helperVars>>
notExec   == <<retryVars, keyVars, clientVars, bulkVars, parVars, applyVars, raceVars, helperVars>>
notApply  == <<retryVars, keyVars, bulkVars, parVars, execVars, raceVars, helperVars>>
notRace   == <<retryVars, keyVars, clientVars, bulkVars, parVars, execVars, applyVars, helperVars>>
notHelper == <<retryVars, keyVars, cacheVars, clientVars, bulkVars, parVars, execVars,
               applyVars, raceVars>>

vars == <<maxRetries, retryDelay, req, keyIn, keyOut,
          enableCache, maxCacheSize, cacheTTL, schema, now, queryCache, obs,
          calls, stale, last, job, par, exec, apply, race, bat, txn>>

(***************************************************************************)
(* Bounds of the model.                                                    *)
(***************************************************************************)
MaxRetriesBound == 3

\* The clock runs from 0 to MaxTime.
MaxTime == 3

\* A scripted transport fails up to one time more than the largest budget
\* can absorb, so both the success and the exhaustion side are reached.
MaxFail == MaxRetriesBound + 2

RetryDelays == {1, 2}

Reqs == {"r1", "r2"}

(***************************************************************************)
(* Retry policy: HarperDBClient.setupInterceptors                          *)
(***************************************************************************)

\* Transport errors as the interceptor sees them: error.response?.status
\* and error.code.
Err503     == [hasResponse |-> TRUE,  status |-> 503, code |-> "ERR_BAD_RESPONSE"]
Err500     == [hasResponse |-> TRUE,  status |-> 500, code |-> "ERR_BAD_RESPONSE"]
Err400     == [hasResponse |-> TRUE,  status |-> 400, code |-> "ERR_BAD_REQUEST"]
Err404     == [hasResponse |-> TRUE,  status |-> 404, code |-> "ERR_BAD_REQUEST"]
ErrTimeout == [hasResponse |-> FALSE, status |-> 0,   code |-> "ECONNABORTED"]
ErrNetwork == [hasResponse |-> FALSE, status |-> 0,   code |-> "ECONNRESET"]

ErrKinds == {Err503, Err500, Err400, Err404, ErrTimeout, ErrNetwork}

\* error.response?.status ?? 0
StatusOf(e) == IF e.hasResponse THEN e.status ELSE 0

\* x || 0 for a numeric configuration value (0 is the only falsy number)
OrZero(x) == IF x = 0 THEN 0 ELSE x

\* (error.response?.status ?? 0) >= 500 || error.code === 'ECONNABORTED'
IsRetryableMutant(e) == StatusOf(e) >= 400 \/ e.code = "ECONNABORTED"

IsRetryable(e) == StatusOf(e) >= 500 \/ e.code = "ECONNABORTED"

\* config.__retryCount < (this.config.maxRetries || 0)
HasBudgetMutant(count) == count + 1 < OrZero(maxRetries)

HasBudget(count) == count < OrZero(maxRetries)

\* (this.config.retryDelay || 0) * (config.__retryCount || 1)
RetryDelayForMutant(count) == OrZero(retryDelay) * (IF count = 0 THEN 1 ELSE 2 ^ (count - 1))

RetryDelayFor(count) == OrZero(retryDelay) * (IF count = 0 THEN 1 ELSE count)

\* A request and the transport it runs against: the transport fails the
\* first failCount sends with failKind and answers every later send.
\* retryCount is config.__retryCount (0 stands for the unset field as well:
\* the interceptor turns an unset count into 0 before it reads it).
NewReq(n, k) ==
    [ st         |-> "new",
      failCount  |-> n,
      failKind   |-> k,
      retryCount |-> 0,
      sends      |-> 0,
      failures   |-> 0,
      delays     |-> <<>> ]

\* The parts of the client a specification does not exercise stay as built.
RetryIdle ==
    /\ maxRetries = 3
    /\ retryDelay = 1
    /\ req = [r \in Reqs |-> NewReq(0, Err503)]

KeyIdle ==
    /\ keyIn = <<>>
    /\ keyOut = <<>>

\* obs: op is the call, hit and data what getCached returned, removed the
\* number of entries the call took out of the store
NoObs == [op |-> "none", hit |-> FALSE, data |-> "none", removed |-> 0]

Callers == {"c1"}

\* a caller's data operation: st is "idle" or "waiting" (suspended in the
\* await of executeQuery); operation, sentSchema, table and hashAttribute
\* are the request posted; schemaLocal is the method's const schema ("" for
\* undefined); cacheKey, useCache and ttlOpt are executeQuery's locals.
\* schemaAtCall and seen are not program state: the configured schema when
\* the method was called, the keys of the table's selects that were in the
\* store then and have not been set or removed since, and whether the key
\* of the call was in the set stale then.
IdleCall ==
    [ st |-> "idle", method |-> "none", form |-> "none", operation |-> "none",
      table |-> "", hashAttribute |-> "", schemaLocal |-> "", sentSchema |-> "",
      schemaAtCall |-> "", cacheKey |-> <<>>, useCache |-> FALSE, ttlOpt |-> 0,
      seen |-> {}, stale |-> FALSE ]

\* the data operation that returned in the last step: ok when it returned
\* a response of the transport or of the cache, threw when it rejected,
\* cached when executeQuery answered from the store, stale when the key of
\* the call was in the set stale when the method was called, untouched when
\* the step left the store as it was
NoLast ==
    [ kind |-> "none", method |-> "none", operation |-> "none", table |-> "",
      hashAttribute |-> "", sentSchema |-> "", schemaAtCall |-> "",
      ok |-> FALSE, threw |-> FALSE, cached |-> FALSE, stale |-> FALSE,
      untouched |-> TRUE, data |-> "none" ]

ClientIdle ==
    /\ calls = [c \in Callers |-> IdleCall]
    /\ stale = {}
    /\ last = NoLast

\* job: phase is "none" (no bulk write called), "running" (suspended in an
\* await) or "completed" (returned).  batches, batchSize, concurrency,
\* schemaLocal, successful, failed and errors are the locals of the method;
\* i is the loop variable; inflight holds the indexes of the groups whose
\* executeQuery has not settled; n is records.length.  sent, okGroups,
\* rejected and invalidations are not program state: the indexes of the
\* groups in the order they were posted, the groups that succeeded, the
\* groups that failed with the message of each, and for every
\* invalidateTableCache call of the job the groups that had succeeded when
\* it was made.
NoJob ==
    [ phase |-> "none", kind |-> "none", table |-> "", n |-> 0, batches |-> <<>>,
      batchSize |-> 0, concurrency |-> 0, schemaLocal |-> "", i |-> 0,
      inflight |-> {}, successful |-> 0, failed |-> 0, errors |-> <<>>,
      sent |-> <<>>, okGroups |-> {}, rejected |-> {}, invalidations |-> <<>> ]

BulkIdle == job = NoJob

\* par: phase is "none" (parallel not called), "running" (suspended in
\* await Promise.all), "returned" or "threw".  queries is the argument;
\* concurrency and failFast are the method's constants; ops[k] is the state
\* of the promise of queries[k] after its catch handler: "inflight",
\* "value" (a result) or "placeholder" ({data: null, error}), or "rejected";
\* error is the error parallel threw.  requestFailed, firstFailed and
\* maxInflight are not program state: the operations whose request failed
\* (or whose type is unknown), the first of them in time (0 for none), and
\* the largest number of operations that were in flight together.
NoPar ==
    [ phase |-> "none", queries |-> <<>>, concurrency |-> 0, failFast |-> FALSE,
      ops |-> <<>>, error |-> "", requestFailed |-> {}, firstFailed |-> 0,
      maxInflight |-> 0 ]

ParIdle == par = NoPar

\* A response of executeQuery: message, data, metadata.executionTime and
\* metadata.cached (FALSE for undefined).
HarperDBResponse(message, data, executionTime, cached) ==
    [message |-> message, data |-> data, executionTime |-> executionTime, cached |-> cached]

NoResponse == HarperDBResponse("", "none", 0, FALSE)

\* exec: st is "idle" (executeQuery not called), "waiting" (suspended in the
\* await of the post), "returned" or "threw".  method is the method of
\* HarperDB that called executeQuery, table its argument, useCacheOpt and
\* ttlOpt its options; cacheKey, useCache and startTime are executeQuery's locals
\* (startTime is 0 again once the call is over);
\* result is the response returned and error the message of the error
\* thrown.  The other fields are not program state: posted tells that the
\* call posted a request, untouched that it has left the store as it was,
\* fresh that the store held an entry under the key of the request that had
\* not expired when the call was made, repeat tells that the call before
\* this one was made by the same method with the same options, was answered
\* by the transport and returned less than the TTL ago, returnedAt is the
\* time the transport answered this call, and failure is the error the
\* transport rejected the post with.
NoFailure == [bodyError |-> "", bodyMessage |-> "", message |-> ""]

NoExec ==
    [ st |-> "idle", method |-> "none", table |-> "", useCacheOpt |-> "unset",
      ttlOpt |-> 0, cacheKey |-> <<>>, useCache |-> FALSE, startTime |-> 0,
      result |-> NoResponse, error |-> "",
      posted |-> FALSE, untouched |-> TRUE, fresh |-> FALSE,
      repeat |-> FALSE, returnedAt |-> 0, failure |-> NoFailure ]

ExecIdle == exec = NoExec

\* apply: phase is "idle" (applySchema not called), "running" (suspended
\* in an await) or "returned".  types, force and skipExisting are the
\* arguments; t is the position of the loop over types (from 1), f the
\* number of indexed fields of the type handled so far; pc names the call
\* applySchema awaits; schemasCreated, originalSchema, tableExists and
\* errors are its locals.  schemaAtCall is not program state: the
\* configured schema when applySchema was called.
NoApply ==
    [ phase |-> "idle", types |-> <<>>, force |-> FALSE, skipExisting |-> FALSE,
      t |-> 0, f |-> 0, pc |-> "none", schemasCreated |-> {},
      originalSchema |-> "", tableExists |-> FALSE, errors |-> <<>>,
      schemaAtCall |-> "" ]

ApplyIdle == apply = NoApply

RaceCallers == {"a", "b"}

\* a data operation of a caller of the shared client: st is "idle",
\* "waiting" (suspended in the await of executeQuery) or "returned";
\* method is the method called and direction the order asked for ("none",
\* "asc", "desc"); cacheKey and useCache are executeQuery's locals, ttlOpt
\* options.cacheTTL; data is the data the method returned, cached whether
\* executeQuery answered from the store, threw whether the method
\* rejected.  posted, early and wire are not program state: whether the
\* request of the call was handed to the transport, whether a write
\* completed while the call was suspended, and the data the transport
\* delivered to the call that stored the entry a hit was answered from.
IdleOp ==
    [ st |-> "idle", method |-> "none", direction |-> "none", cacheKey |-> <<>>,
      useCache |-> FALSE, ttlOpt |-> 0, schemaName |-> "", data |-> <<>>,
      cached |-> FALSE, threw |-> FALSE, posted |-> FALSE, early |-> FALSE,
      wire |-> <<>> ]

\* race: ops are the operations by caller.  received and early are not
\* program state: for the keys in the store, the data the transport
\* delivered for the entry, and the keys whose entry holds the response to
\* a request that was sent before a write completed that has completed
\* since.
NoRace == [ ops |-> [c \in RaceCallers |-> IdleOp], received |-> {}, early |-> {} ]

RaceIdle == race = NoRace

\* bat: phase is "none" (batch not called), "running" (suspended in the
\* await of a wave), "returned" or "threw".  n is operations.length;
\* concurrency and failFast are the method's constants; i is the loop
\* variable; results is the array it builds and error the error it threw.
\* ops[k] is the promise operation k - 1 returned: "unstarted" (not
\* called), "pending", "fulfilled" or "rejected", with its value or the
\* message of its reason.  started is not program state: the operations
\* in the order they were called.
NoBat ==
    [ phase |-> "none", n |-> 0, concurrency |-> 0, failFast |-> FALSE, i |-> 0,
      ops |-> <<>>, results |-> <<>>, error |-> "", started |-> <<>> ]

\* txn: phase is "none" (transaction not called), "running" (suspended in
\* the await of an operation) or "returned".  n is operations.length,
\* rollbackOnError the option, k the operation awaited (from 1), results
\* the array it builds; success and error are the fields of the data it
\* returned.  invoked and applied are not program state: the operations
\* in the order they were called, the operations that completed and have
\* not been undone, each with the value it resolved with, and the
\* operation that failed (0 for none).
NoTxn ==
    [ phase |-> "none", n |-> 0, rollbackOnError |-> FALSE, k |-> 0,
      results |-> <<>>, success |-> FALSE, error |-> "",
      invoked |-> <<>>, applied |-> {}, failedAt |-> 0 ]

HelperIdle == bat = NoBat /\ txn = NoTxn

CacheIdle ==
    /\ enableCache = FALSE
    /\ maxCacheSize = 1000
    /\ cacheTTL = 5000
    /\ schema = "dev"
    /\ now = 0
    /\ queryCache = <<>>
    /\ obs = NoObs

RetryInit ==
    /\ KeyIdle
    /\ CacheIdle
    /\ ClientIdle
    /\ BulkIdle
    /\ ParIdle
    /\ ExecIdle
    /\ ApplyIdle
    /\ RaceIdle
    /\ HelperIdle
    /\ maxRetries \in 0..MaxRetriesBound
    /\ retryDelay \in RetryDelays
    /\ req \in [Reqs -> {NewReq(n, k) : n \in 0..MaxFail, k \in ErrKinds}]

\* executeQuery: this.axiosInstance.post(endpoint, requestBody, ...)
Post(r) ==
    /\ req[r].st = "new"
    /\ req' = [req EXCEPT ![r].st = "inflight", ![r].sends = 1]
    /\ UNCHANGED <<maxRetries, retryDelay>>
    /\ UNCHANGED notRetry

\* The transport answers with a 2xx: the response interceptor passes it on.
RespondOk(r) ==
    /\ req[r].st = "inflight"
    /\ req[r].failures >= req[r].failCount
    /\ req' = [req EXCEPT ![r].st = "ok"]
    /\ UNCHANGED <<maxRetries, retryDelay>>
    /\ UNCHANGED notRetry

\* The transport fails: the error branch of the response interceptor.
RespondErrorMutant(r) ==
    /\ req[r].st = "inflight"
    /\ req[r].failures < req[r].failCount
    /\ LET count == CHOOSE n \in { req[q].retryCount : q \in Reqs } :
                        \A q \in Reqs : req[q].retryCount <= n
           e     == req[r].failKind
       IN  IF HasBudget(count) /\ IsRetryable(e)
           THEN req' = [req EXCEPT ![r].st = "delay",
                                   ![r].failures = @ + 1,
                                   ![r].retryCount = count + 1,
                                   ![r].delays = Append(@, RetryDelayFor(count + 1))]
           ELSE req' = [req EXCEPT ![r].st = "rejected",
                                   ![r].failures = @ + 1]
    /\ UNCHANGED <<maxRetries, retryDelay>>
    /\ UNCHANGED notRetry

RespondError(r) ==
    /\ req[r].st = "inflight"
    /\ req[r].failures < req[r].failCount
    /\ LET count == req[r].retryCount
           e     == req[r].failKind
       IN  IF HasBudget(count) /\ IsRetryable(e)
           THEN req' = [req EXCEPT ![r].st = "delay",
                                   ![r].failures = @ + 1,
                                   ![r].retryCount = count + 1,
                                   ![r].delays = Append(@, RetryDelayFor(count + 1))]
           ELSE req' = [req EXCEPT ![r].st = "rejected",
                                   ![r].failures = @ + 1]
    /\ UNCHANGED <<maxRetries, retryDelay>>
    /\ UNCHANGED notRetry

\* The retry timer fires: return this.axiosInstance(config)
Resend(r) ==
    /\ req[r].st = "delay"
    /\ req' = [req EXCEPT ![r].st = "inflight", ![r].sends = @ + 1]
    /\ UNCHANGED <<maxRetries, retryDelay>>
    /\ UNCHANGED notRetry

RetryNext ==
    \E r \in Reqs :
        \/ Post(r)
        \/ RespondOk(r)
        \/ RespondError(r)
        \/ Resend(r)

SpecRetry == RetryInit /\ [][RetryNext]_vars

Settled(r) == req[r].st \in {"ok", "rejected"}

(***************************************************************************)
(* JSON values.  A value is a record [t, v]: t is the type tag and v the   *)
(* payload: a string for a scalar, the sequence of members [k, val] in     *)
(* property order for an object, the sequence of elements for an array.    *)
(***************************************************************************)
JStr(s)  == [t |-> "str",   v |-> s]
JNum(s)  == [t |-> "num",   v |-> s]
JNull    == [t |-> "null",  v |-> "null"]
JUndef   == [t |-> "undef", v |-> "undefined"]
JObj(ms) == [t |-> "obj",   v |-> ms]
JArr(es) == [t |-> "arr",   v |-> es]
Member(key, val) == [k |-> key, val |-> val]

\* typeof x === 'object' && x !== null && !Array.isArray(x)
IsPlainObject(j) == j.t = "obj"

\* body[key]: the value of a property, undefined when the object has none
RECURSIVE GetProp(_, _)
GetProp(ms, key) ==
    IF ms = <<>> THEN JUndef
    ELSE IF Head(ms).k = key THEN Head(ms).val
    ELSE GetProp(Tail(ms), key)

\* !x for a JSON value: undefined, null, '' and 0 are falsy
IsFalsy(j) ==
    \/ j.t \in {"undef", "null"}
    \/ j.t = "str" /\ j.v = ""
    \/ j.t = "num" /\ j.v = "0"

(***************************************************************************)
(* Array.prototype.sort on property names.  Names are compared by UTF-16   *)
(* code units; KeyOrder lists the names the model uses in that order.      *)
(***************************************************************************)
KeyOrder ==
    << "a", "b", "body", "c", "d", "get_attributes", "hash_values", "limit",
       "operation", "records", "schema", "search_attribute", "search_value",
       "sql", "table", "where" >>

KeyRank(key) == CHOOSE i \in 1..Len(KeyOrder) : KeyOrder[i] = key

RECURSIVE InsertSorted(_, _)
InsertSorted(m, sorted) ==
    IF sorted = <<>> THEN <<m>>
    ELSE IF KeyRank(m.k) < KeyRank(Head(sorted).k)
         THEN <<m>> \o sorted
         ELSE <<Head(sorted)>> \o InsertSorted(m, Tail(sorted))

RECURSIVE SortMembers(_)
SortMembers(ms) ==
    IF ms = <<>> THEN <<>>
    ELSE InsertSorted(Head(ms), SortMembers(Tail(ms)))

(***************************************************************************)
(* HarperDBClient.normalizeBody                                            *)
(***************************************************************************)
RECURSIVE normalizeMembers(_)
normalizeBodyMutant(body) == body

normalizeBody(body) ==
    IF body.t # "obj" THEN body
    ELSE JObj(normalizeMembers(SortMembers(body.v)))

normalizeMembers(ms) ==
    IF ms = <<>> THEN <<>>
    ELSE LET m == Head(ms)
         IN  <<Member(m.k, IF IsPlainObject(m.val)
                           THEN normalizeBody(m.val)
                           ELSE m.val)>>
             \o normalizeMembers(Tail(ms))

(***************************************************************************)
(* JSON.stringify: the text as a sequence of tokens [k, s].                *)
(***************************************************************************)
Punct(c) == [k |-> "punct", s |-> c]
Tok(j)   == [k |-> j.t, s |-> j.v]

RECURSIVE Stringify(_)
RECURSIVE StringifyMembers(_, _)
RECURSIVE StringifyElems(_, _)
Stringify(j) ==
    IF j.t = "obj" THEN <<Punct("{")>> \o StringifyMembers(j.v, TRUE) \o <<Punct("}")>>
    ELSE IF j.t = "arr" THEN <<Punct("[")>> \o StringifyElems(j.v, TRUE) \o <<Punct("]")>>
    ELSE <<Tok(j)>>

\* a property whose value is undefined is left out
StringifyMembers(ms, first) ==
    IF ms = <<>> THEN <<>>
    ELSE IF Head(ms).val.t = "undef" THEN StringifyMembers(Tail(ms), first)
    ELSE (IF first THEN <<>> ELSE <<Punct(",")>>)
         \o <<Tok(JStr(Head(ms).k)), Punct(":")>>
         \o Stringify(Head(ms).val)
         \o StringifyMembers(Tail(ms), FALSE)

\* an undefined array element is written as null
StringifyElems(es, first) ==
    IF es = <<>> THEN <<>>
    ELSE (IF first THEN <<>> ELSE <<Punct(",")>>)
         \o (IF Head(es).t = "undef" THEN <<Tok(JNull)>> ELSE Stringify(Head(es)))
         \o StringifyElems(Tail(es), FALSE)

(***************************************************************************)
(* JSON.parse: a recursive-descent parser of the token text.  The result   *)
(* is [ok, val, rest]; ok is FALSE where JSON.parse throws.                *)
(***************************************************************************)
ParseFail == [ok |-> FALSE, val |-> JUndef, rest |-> <<>>]
Parsed(j, rest) == [ok |-> TRUE, val |-> j, rest |-> rest]

IsPunct(toks, c) == toks # <<>> /\ Head(toks) = Punct(c)

RECURSIVE ParseValue(_)
RECURSIVE ParseMembers(_, _)
RECURSIVE ParseElems(_, _)
ParseValue(toks) ==
    IF toks = <<>> THEN ParseFail
    ELSE IF IsPunct(toks, "{") THEN
        IF IsPunct(Tail(toks), "}") THEN Parsed(JObj(<<>>), Tail(Tail(toks)))
        ELSE ParseMembers(Tail(toks), <<>>)
    ELSE IF IsPunct(toks, "[") THEN
        IF IsPunct(Tail(toks), "]") THEN Parsed(JArr(<<>>), Tail(Tail(toks)))
        ELSE ParseElems(Tail(toks), <<>>)
    ELSE IF Head(toks).k \in {"str", "num", "null"}
         THEN Parsed([t |-> Head(toks).k, v |-> Head(toks).s], Tail(toks))
         ELSE ParseFail

\* toks starts at a member; acc holds the members read so far
ParseMembers(toks, acc) ==
    IF Len(toks) < 3 \/ Head(toks).k # "str" \/ toks[2] # Punct(":") THEN ParseFail
    ELSE LET r == ParseValue(SubSeq(toks, 3, Len(toks)))
         IN  IF ~r.ok THEN ParseFail
             ELSE LET acc2 == Append(acc, Member(Head(toks).s, r.val))
                  IN  IF IsPunct(r.rest, "}") THEN Parsed(JObj(acc2), Tail(r.rest))
                      ELSE IF IsPunct(r.rest, ",") THEN ParseMembers(Tail(r.rest), acc2)
                      ELSE ParseFail

ParseElems(toks, acc) ==
    LET r == ParseValue(toks)
    IN  IF ~r.ok THEN ParseFail
        ELSE LET acc2 == Append(acc, r.val)
             IN  IF IsPunct(r.rest, "]") THEN Parsed(JArr(acc2), Tail(r.rest))
                 ELSE IF IsPunct(r.rest, ",") THEN ParseElems(Tail(r.rest), acc2)
                 ELSE ParseFail

\* JSON.parse(text): the whole text must be one value
JsonParse(toks) ==
    LET r == ParseValue(toks)
    IN  IF r.ok /\ r.rest = <<>> THEN r ELSE ParseFail

(***************************************************************************)
(* Buffer.from(text).toString('base64') and back.  The encoding is         *)
(* one-to-one; it is modelled token by token.                              *)
(***************************************************************************)
Base64Encode(toks) == [i \in 1..Len(toks) |-> [b64 |-> toks[i]]]
Base64Decode(key)  == [i \in 1..Len(key) |-> key[i].b64]

\* '' : the key of a request that is not cached
EmptyKey == <<>>

(***************************************************************************)
(* HarperDBClient.generateCacheKey                                         *)
(***************************************************************************)
cacheableOperations ==
    { "select", "get_by_hash", "get_by_hashes", "search_by_value", "sql",
      "describe_table", "list_tables", "list_schemas" }

\* operation.toLowerCase(), on the operation names the model uses
toLowerCase(operation) ==
    CASE operation = "SQL" -> "sql"
      [] operation = "Search_By_Value" -> "search_by_value"
      [] OTHER -> operation

generateCacheKey(operation, body) ==
    IF toLowerCase(operation) \notin cacheableOperations THEN EmptyKey
    ELSE Base64Encode(Stringify(JObj(<< Member("operation", JStr(operation)),
                                        Member("body", normalizeBody(body)) >>)))

(***************************************************************************)
(* The cache store: this.queryCache, a Map from key to CacheEntry.  A Map  *)
(* iterates in insertion order; the model keeps the entries as a sequence  *)
(* in that order.  insertedAt is not a field of the program: it records    *)
(* when the key entered the Map.                                           *)
(***************************************************************************)
CacheEntry(key, data, timestamp, ttl, insertedAt) ==
    [key |-> key, data |-> data, timestamp |-> timestamp, ttl |-> ttl,
     insertedAt |-> insertedAt]

\* Map.prototype.has / get / delete / set / keys
MapHas(c, key) == \E i \in 1..Len(c) : c[i].key = key
MapGet(c, key) == c[CHOOSE i \in 1..Len(c) : c[i].key = key]
MapKeys(c)     == [i \in 1..Len(c) |-> c[i].key]
MapDelete(c, key) == SelectSeq(c, LAMBDA e : e.key # key)

\* set on a key the Map holds replaces the value and keeps the position
MapSet(c, key, data, timestamp, ttl) ==
    IF MapHas(c, key)
    THEN [i \in 1..Len(c) |->
            IF c[i].key = key
            THEN CacheEntry(key, data, timestamp, ttl, c[i].insertedAt)
            ELSE c[i]]
    ELSE Append(c, CacheEntry(key, data, timestamp, ttl, timestamp))

\* now - entry.timestamp > entry.ttl
IsExpiredMutant(e, t) == t - e.timestamp >= e.ttl

IsExpired(e, t) == t - e.timestamp > e.ttl

\* HarperDBClient.getCached: [hit, data, cache] (data is "none" for null)
getCached(c, cacheKey) ==
    IF cacheKey = EmptyKey \/ ~enableCache
    THEN [hit |-> FALSE, data |-> "none", cache |-> c]
    ELSE IF ~MapHas(c, cacheKey)
    THEN [hit |-> FALSE, data |-> "none", cache |-> c]
    ELSE IF IsExpired(MapGet(c, cacheKey), now)
    THEN [hit |-> FALSE, data |-> "none", cache |-> MapDelete(c, cacheKey)]
    ELSE [hit |-> TRUE, data |-> MapGet(c, cacheKey).data, cache |-> c]

\* setCache: the key removed when the store is full
\* (this.queryCache.keys().next().value, deleted when it is truthy)
EvictFirstMutant(c) == IF c = <<>> THEN c ELSE SubSeq(c, 1, Len(c) - 1)

EvictFirst(c) == IF c = <<>> THEN c ELSE MapDelete(c, c[1].key)

\* ttl || this.config.cacheTTL || 0
EffectiveTTL(ttl) == IF ttl # 0 THEN ttl ELSE OrZero(cacheTTL)

\* HarperDBClient.setCache: the store after the call
setCache(c, cacheKey, data, ttl) ==
    IF cacheKey = EmptyKey \/ ~enableCache THEN c
    ELSE LET c1 == IF Len(c) >= OrZero(maxCacheSize) THEN EvictFirst(c) ELSE c
         IN  MapSet(c1, cacheKey, data, now, EffectiveTTL(ttl))

\* HarperDBClient.clearCache
clearCache(c) == <<>>

\* the callback of startCacheCleanup
cleanupMutant(c) == SelectSeq(c, LAMBDA e : now - e.timestamp <= 0)

cleanup(c) == SelectSeq(c, LAMBDA e : ~IsExpired(e, now))

\* x || y on strings ('' is falsy)
StrOr(x, y) == IF x # "" THEN x ELSE y

\* invalidateTableCache: does the entry under this key go?  FALSE also when
\* decoding throws (the catch block ignores the key).
MatchesTableMutant(key, table, schemaName) ==
    LET decoded == JsonParse(Base64Decode(key))
    IN  /\ decoded.ok
        /\ decoded.val.t = "obj"
        /\ LET b    == GetProp(decoded.val.v, "body")
               body == IF IsFalsy(b) THEN JObj(<<>>) ELSE b
           IN  /\ body.t = "obj"
               /\ GetProp(body.v, "table") = JStr(table)

MatchesTable(key, table, schemaName) ==
    LET decoded == JsonParse(Base64Decode(key))
    IN  /\ decoded.ok
        /\ decoded.val.t = "obj"
        /\ LET b    == GetProp(decoded.val.v, "body")
               body == IF IsFalsy(b) THEN JObj(<<>>) ELSE b
           IN  /\ body.t = "obj"
               /\ GetProp(body.v, "table") = JStr(table)
               /\ \/ GetProp(body.v, "schema") = JStr(schemaName)
                  \/ IsFalsy(GetProp(body.v, "schema"))

\* HarperDBClient.invalidateTableCache ('' stands for an omitted schema)
invalidateTableCache(c, table, schemaArg) ==
    LET schemaName == StrOr(schemaArg, StrOr(schema, ""))
    IN  SelectSeq(c, LAMBDA e : ~MatchesTable(e.key, table, schemaName))

(***************************************************************************)
(* SpecCache: the store operations called in any order on the requests of  *)
(* StoreRequests, on a key that does not decode, and on the empty key.     *)
(***************************************************************************)
Request(operation, body) == [operation |-> operation, body |-> body]

DescribeBody(s, t) == JObj(<<Member("schema", JStr(s)), Member("table", JStr(t))>>)

StoreRequests ==
    { Request("describe_table", DescribeBody("dev", "orders")),
      Request("describe_table", DescribeBody("prod", "orders")),
      Request("describe_table", JObj(<<Member("table", JStr("orders"))>>)),
      Request("sql", JObj(<<Member("sql", JStr("SELECT * FROM dev.orders"))>>)) }

\* a key whose text is not JSON
MalformedKey == Base64Encode(<<Punct("{"), Tok(JStr("operation"))>>)

StoreKeys ==
    { generateCacheKey(q.operation, q.body) : q \in StoreRequests } \cup {MalformedKey}

Payloads == {"p1", "p2"}

\* the (data, ttl) arguments of setCache: a response stored with the default
\* ttl (0 stands for an omitted ttl) and another stored with a ttl of 1
SetArgs == { [data |-> "p1", ttl |-> 0], [data |-> "p2", ttl |-> 1] }
Tables   == {"orders", "users"}
Schemas  == {"dev", "prod"}

CacheTTLs  == {2}
CacheSizes == {0, 1, 2}

\* the entries of c that are not in d
Removed(c, d) == Cardinality({c[i].key : i \in 1..Len(c)} \ {d[i].key : i \in 1..Len(d)})

Obs(op, hit, data, c, d) ==
    [op |-> op, hit |-> hit, data |-> data, removed |-> Removed(c, d)]

CacheInit ==
    /\ RetryIdle
    /\ KeyIdle
    /\ ClientIdle
    /\ BulkIdle
    /\ ParIdle
    /\ ExecIdle
    /\ ApplyIdle
    /\ RaceIdle
    /\ HelperIdle
    /\ enableCache \in BOOLEAN
    /\ maxCacheSize \in CacheSizes
    /\ cacheTTL \in CacheTTLs
    /\ schema = "dev"
    /\ now = 0
    /\ queryCache = <<>>
    /\ obs = NoObs

CallSetCache(key, data, ttl) ==
    /\ queryCache' = setCache(queryCache, key, data, ttl)
    /\ obs' = Obs("set", FALSE, "none", queryCache, queryCache')
    /\ UNCHANGED <<configVars, schema, now>>
    /\ UNCHANGED notCache

CallGetCached(key) ==
    /\ LET r == getCached(queryCache, key)
       IN  /\ queryCache' = r.cache
           /\ obs' = Obs("get", r.hit, r.data, queryCache, r.cache)
    /\ UNCHANGED <<configVars, schema, now>>
    /\ UNCHANGED notCache

CallInvalidate(table, schemaArg) ==
    /\ queryCache' = invalidateTableCache(queryCache, table, schemaArg)
    /\ obs' = Obs("invalidate", FALSE, "none", queryCache, queryCache')
    /\ UNCHANGED <<configVars, schema, now>>
    /\ UNCHANGED notCache

CallClearCache ==
    /\ queryCache' = clearCache(queryCache)
    /\ obs' = Obs("clear", FALSE, "none", queryCache, queryCache')
    /\ UNCHANGED <<configVars, schema, now>>
    /\ UNCHANGED notCache

\* the interval timer of startCacheCleanup, started when the cache is enabled
CleanupTimer ==
    /\ enableCache
    /\ queryCache' = cleanup(queryCache)
    /\ obs' = Obs("cleanup", FALSE, "none", queryCache, queryCache')
    /\ UNCHANGED <<configVars, schema, now>>
    /\ UNCHANGED notCache

\* time passes
Tick ==
    /\ now < MaxTime
    /\ now' = now + 1
    /\ obs' = NoObs
    /\ UNCHANGED <<configVars, schema, queryCache>>
    /\ UNCHANGED notCache

CacheNext ==
    \/ \E key \in StoreKeys \cup {EmptyKey}, a \in SetArgs :
           CallSetCache(key, a.data, a.ttl)
    \/ \E key \in StoreKeys \cup {EmptyKey} : CallGetCached(key)
    \/ \E table \in Tables, schemaArg \in Schemas \cup {""} :
           CallInvalidate(table, schemaArg)
    \/ CallClearCache
    \/ CleanupTimer
    \/ Tick

SpecCache == CacheInit /\ [][CacheNext]_vars

\* SpecCacheFair: the store operations with the interval timer of
\* startCacheCleanup firing again and again (setInterval).
SpecCacheFair == SpecCache /\ WF_vars(CleanupTimer)

(***************************************************************************)
(* SpecKey: generateCacheKey applied to pairs of requests.                 *)
(* The bodies are objects over the properties table and where; where holds *)
(* a scalar, an array or an object nested two levels deep.  Every object   *)
(* comes in both property orders.                                          *)
(***************************************************************************)
BothOrders(m1, m2) == { JObj(<<m1, m2>>), JObj(<<m2, m1>>) }

Scalars == { JStr("x"), JStr("y") }

DeepObjects ==
    UNION { BothOrders(Member("c", v), Member("d", w)) :
                <<v, w>> \in { <<JStr("x"), JStr("y")>>, <<JStr("y"), JStr("x")>> } }

Arrays ==
    { JArr(<<JStr("x"), JStr("y")>>), JArr(<<JStr("y"), JStr("x")>>),
      JArr(<<JObj(<<Member("c", JStr("x")), Member("d", JStr("y"))>>)>>),
      JArr(<<JObj(<<Member("d", JStr("y")), Member("c", JStr("x"))>>)>>) }

MidObjects ==
    UNION { BothOrders(Member("a", v), Member("b", w)) :
                v \in Scalars \cup DeepObjects \cup Arrays, w \in Scalars }

WhereValues == Scalars \cup Arrays \cup MidObjects

KeyBodies ==
    UNION { BothOrders(Member("table", v), Member("where", w)) :
                v \in Scalars, w \in WhereValues }

\* The first body of a pair: one table and one top-level order are enough,
\* the second body ranges over all of KeyBodies.
FirstBodies ==
    { JObj(<<Member("table", JStr("x")), Member("where", w)>>) : w \in WhereValues }

KeyOperations == { "sql", "SQL", "search_by_value", "insert" }

KeyInit ==
    /\ RetryIdle
    /\ CacheIdle
    /\ ClientIdle
    /\ BulkIdle
    /\ ParIdle
    /\ ExecIdle
    /\ ApplyIdle
    /\ RaceIdle
    /\ HelperIdle
    /\ keyIn \in { <<[operation |-> o1, body |-> b1], [operation |-> o2, body |-> b2]>> :
                     o1 \in {"sql"}, o2 \in KeyOperations,
                     b1 \in FirstBodies, b2 \in KeyBodies }
    /\ keyOut = <<>>

GenerateKeys ==
    /\ keyOut = <<>>
    /\ keyIn # <<>>
    /\ keyOut' = << generateCacheKey(keyIn[1].operation, keyIn[1].body),
                    generateCacheKey(keyIn[2].operation, keyIn[2].body) >>
    /\ UNCHANGED keyIn
    /\ UNCHANGED notKey

KeyNext == GenerateKeys

SpecKey == KeyInit /\ [][KeyNext]_vars

(***************************************************************************)
(* Spec: the data operations of HarperDB on one client.  Each caller runs  *)
(* select, insert, update, upsert or delete; a method that reaches the     *)
(* await of executeQuery is suspended until the transport (interceptor     *)
(* included) resolves or rejects the post, and other callers, setSchema,   *)
(* clearCache, invalidateTableCache, the cleanup timer and the clock run   *)
(* in between.                                                             *)
(***************************************************************************)
ClientTables   == {"orders"}
WriteMethods   == {"insert", "update", "upsert", "delete"}
HashAttributes == {"", "id"}              \* "" : options.hashAttribute not given
Wheres         == { JObj(<<Member("id", JStr("1"))>>) }
UseCacheOpts   == {"unset", "false"}      \* options.useCache
ClientPayloads == {"p1"}                  \* response data
TtlOpts        == {0}                     \* options.cacheTTL, 0 : not given
ClientCacheSizes == {0, 1}               \* config.maxCacheSize

\* `SELECT * FROM ${schema}.${table}`
SqlText(schemaName, table) == "SELECT * FROM " \o schemaName \o "." \o table

\* HarperDB.select: the operation and body it passes to executeQuery, for
\* options without sql, limit, offset and orderBy
SelectRequest(schemaName, table, where) ==
    IF IsFalsy(where)
    THEN Request("sql", JObj(<<Member("sql", JStr(SqlText(schemaName, table)))>>))
    ELSE Request("search_by_value",
                 JObj(<< Member("schema", JStr(schemaName)),
                         Member("table", JStr(table)),
                         Member("search_attribute",
                                IF where.v = <<>> THEN JUndef ELSE JStr(where.v[1].k)),
                         Member("search_value",
                                IF where.v = <<>> THEN JUndef ELSE where.v[1].val),
                         Member("get_attributes", JArr(<<JStr("*")>>)) >>))

\* insert / update / upsert / delete: the operation and body
WriteRequest(method, schemaName, table, hashAttribute) ==
    Request(method,
            JObj(<< Member("schema", JStr(schemaName)),
                    Member("table", JStr(table)),
                    IF method = "delete"
                    THEN Member("hash_values", JArr(<<JStr("1")>>))
                    ELSE Member("records", JArr(<<JObj(<<Member("id", JStr("1"))>>)>>)),
                    Member("hash_attribute",
                           IF hashAttribute = "" THEN JUndef ELSE JStr(hashAttribute)) >>))

\* executeQuery: options?.useCache !== undefined ? options.useCache
\*                                               : (this.config.enableCache || false)
UseCache(useCacheOpt) ==
    IF useCacheOpt = "unset" THEN enableCache ELSE useCacheOpt = "true"

\* The requests of the data operations, and generateCacheKey of each.
SelectRequests ==
    { SelectRequest(s, t, JUndef) : s \in Schemas, t \in ClientTables }
    \cup { SelectRequest(x[1], x[2], x[3]) : x \in Schemas \X ClientTables \X Wheres }

WriteRequests ==
    { WriteRequest(x[1], x[2], x[3], x[4]) :
        x \in WriteMethods \X Schemas \X ClientTables \X HashAttributes }

\* The methods of HarperDB that SpecExec calls executeQuery through, and
\* the operation and body each passes.
ReadMethods ==
    { "select", "searchByValue", "getByHash", "getByHashes", "describeTable",
      "listTables" }

ExecMethods == ReadMethods \cup {"insert"}

HashBody(schemaName, table, hashValues) ==
    JObj(<< Member("schema", JStr(schemaName)),
            Member("table", JStr(table)),
            Member("hash_values", JArr(hashValues)),
            Member("get_attributes", JArr(<<JStr("*")>>)) >>)

MethodRequest(method, schemaName, table) ==
    CASE method = "select" -> SelectRequest(schemaName, table, JUndef)
      [] method = "searchByValue" ->
           SelectRequest(schemaName, table, JObj(<<Member("id", JStr("1"))>>))
      [] method = "getByHash" ->
           Request("search_by_hash", HashBody(schemaName, table, <<JStr("1")>>))
      [] method = "getByHashes" ->
           Request("search_by_hash", HashBody(schemaName, table, <<JStr("1"), JStr("2")>>))
      [] method = "describeTable" ->
           Request("describe_table", DescribeBody(schemaName, table))
      [] method = "listTables" ->
           Request("list_tables", JObj(<<Member("schema", JStr(schemaName))>>))
      [] method = "insert" -> WriteRequest("insert", schemaName, table, "")

ExecRequests ==
    { MethodRequest(x[1], x[2], x[3]) : x \in ExecMethods \X Schemas \X ClientTables }

\* updateByValue: the statement it builds and passes to sql(), which
\* passes it to executeQuery as operation 'sql'
UpdateSqlText(schemaName, table) ==
    "UPDATE " \o schemaName \o "." \o table \o " SET status = 'x' WHERE id = '1'"

UpdateByValueRequest(schemaName, table) ==
    Request("sql", JObj(<<Member("sql", JStr(UpdateSqlText(schemaName, table)))>>))

ByValueRequests ==
    { UpdateByValueRequest(s, t) : s \in Schemas, t \in ClientTables }

ClientKeyOf ==
    [ q \in SelectRequests \cup WriteRequests \cup ExecRequests \cup ByValueRequests |->
        generateCacheKey(q.operation, q.body) ]

\* executeQuery up to the post: [hit, data, cache, cacheKey, useCache]
executeQueryStart(q, useCacheOpt) ==
    LET useCache == UseCache(useCacheOpt)
        cacheKey == IF useCache THEN ClientKeyOf[q] ELSE EmptyKey
        r        == getCached(queryCache, cacheKey)
    IN  [ hit |-> cacheKey # EmptyKey /\ r.hit, data |-> r.data, cache |-> r.cache,
          cacheKey |-> cacheKey, useCache |-> useCache ]

\* executeQuery after the post resolved: the store
executeQueryStore(call, data) ==
    IF call.cacheKey # EmptyKey /\ call.useCache
    THEN setCache(queryCache, call.cacheKey, data,
                  IF call.ttlOpt # 0 THEN call.ttlOpt ELSE OrZero(cacheTTL))
    ELSE queryCache

\* The keys select(table) is cached under, by schema.
SelectKeysOf ==
    [ s \in Schemas, t \in ClientTables |->
        { ClientKeyOf[SelectRequest(s, t, JUndef)] }
        \cup { ClientKeyOf[SelectRequest(s, t, w)] : w \in Wheres } ]

TableKeys(table) == UNION { SelectKeysOf[s, table] : s \in Schemas }

\* The keys that a step set or took out of the store.
Gone(c, d, setKey) ==
    ({ c[i].key : i \in 1..Len(c) } \ { d[i].key : i \in 1..Len(d) }) \cup {setKey}

Forget(cs, gone) == [c \in Callers |-> [cs[c] EXCEPT !.seen = @ \ gone]]

ClientInit ==
    /\ RetryIdle
    /\ KeyIdle
    /\ ClientIdle
    /\ BulkIdle
    /\ ParIdle
    /\ ExecIdle
    /\ ApplyIdle
    /\ RaceIdle
    /\ HelperIdle
    /\ enableCache \in BOOLEAN
    /\ maxCacheSize \in ClientCacheSizes
    /\ cacheTTL \in CacheTTLs
    /\ schema = "dev"
    /\ now = 0
    /\ queryCache = <<>>
    /\ obs = NoObs

\* select(table, options): answered from the store, or suspended in the post
Select(c, table, where, useCacheOpt, ttlOpt) ==
    /\ calls[c].st = "idle"
    /\ LET q    == SelectRequest(schema, table, where)
           r    == executeQueryStart(q, useCacheOpt)
           gone == Gone(queryCache, r.cache, EmptyKey)
       IN  /\ queryCache' = r.cache
           /\ stale' = (stale \ gone) \ TableKeys(table)
           /\ IF r.hit
              THEN /\ calls' = Forget(calls, gone)
                   /\ last' = [ NoLast EXCEPT
                                  !.kind = "read", !.method = "select",
                                  !.operation = q.operation, !.table = table,
                                  !.sentSchema = schema, !.schemaAtCall = schema,
                                  !.ok = TRUE, !.cached = TRUE,
                                  !.stale = r.cacheKey \in stale,
                                  !.untouched = (r.cache = queryCache),
                                  !.data = r.data ]
              ELSE /\ calls' = [ Forget(calls, gone) EXCEPT ![c] =
                                   [ IdleCall EXCEPT
                                       !.st = "waiting", !.method = "select",
                                       !.form = IF IsFalsy(where) THEN "plain" ELSE "where",
                                       !.operation = q.operation, !.table = table,
                                       !.schemaLocal = schema, !.sentSchema = schema,
                                       !.schemaAtCall = schema,
                                       !.cacheKey = r.cacheKey,
                                       !.useCache = r.useCache, !.ttlOpt = ttlOpt,
                                       !.stale = r.cacheKey \in stale ] ]
                   /\ last' = NoLast
    /\ UNCHANGED <<configVars, schema, now, obs>>
    /\ UNCHANGED notClient

\* insert / update / upsert / delete (table, record, options): these
\* operations are not cacheable, so executeQuery posts the request
Write(c, method, table, hashAttribute) ==
    /\ calls[c].st = "idle"
    /\ LET schemaLocal == IF hashAttribute # "" THEN "" ELSE schema
           q == WriteRequest(method, StrOr(schemaLocal, schema), table, hashAttribute)
           r == executeQueryStart(q, "unset")
       IN  /\ ~r.hit
           /\ calls' = [ calls EXCEPT ![c] =
                           [ IdleCall EXCEPT
                               !.st = "waiting", !.method = method, !.form = "write",
                               !.operation = q.operation, !.table = table,
                               !.hashAttribute = hashAttribute,
                               !.schemaLocal = schemaLocal,
                               !.sentSchema = GetProp(q.body.v, "schema").v,
                               !.schemaAtCall = schema,
                               !.cacheKey = r.cacheKey, !.useCache = r.useCache,
                               !.seen = { k \in TableKeys(table) : MapHas(queryCache, k) } ] ]
           /\ queryCache' = r.cache
    /\ last' = NoLast
    /\ UNCHANGED <<configVars, schema, now, obs, stale>>
    /\ UNCHANGED notClient

\* the post of c resolved with data: a select stores the response and
\* returns it; a write calls invalidateTableCache(table, schema ||
\* this.getSchema()) and returns
QueryResolved(c, data) ==
    /\ calls[c].st = "waiting"
    /\ LET call == calls[c]
           d    == IF call.method = "select"
                   THEN executeQueryStore(call, data)
                   ELSE invalidateTableCache(executeQueryStore(call, data), call.table,
                                             StrOr(call.schemaLocal, schema))
           gone == Gone(queryCache, d, call.cacheKey)
           left == IF call.method = "insert"
                   THEN { k \in call.seen \cap SelectKeysOf[call.sentSchema, call.table] :
                            MapHas(d, k) }
                   ELSE {}
       IN  /\ queryCache' = d
           /\ stale' = (stale \ gone) \cup left
           /\ calls' = [ Forget(calls, gone) EXCEPT ![c] = IdleCall ]
           /\ last' = [ NoLast EXCEPT
                          !.kind = IF call.method = "select" THEN "read" ELSE "write",
                          !.method = call.method, !.operation = call.operation,
                          !.table = call.table, !.hashAttribute = call.hashAttribute,
                          !.sentSchema = call.sentSchema,
                          !.schemaAtCall = call.schemaAtCall,
                          !.ok = TRUE, !.stale = call.stale,
                          !.untouched = (d = queryCache), !.data = data ]
    /\ UNCHANGED <<configVars, schema, now, obs>>
    /\ UNCHANGED notClient

\* the post of c rejected (after the interceptor's retries): executeQuery
\* throws; select without where catches and returns [], the other methods
\* let the error through
QueryRejected(c) ==
    /\ calls[c].st = "waiting"
    /\ LET call == calls[c]
       IN  /\ calls' = [ calls EXCEPT ![c] = IdleCall ]
           /\ last' = [ NoLast EXCEPT
                          !.kind = IF call.method = "select" THEN "read" ELSE "write",
                          !.method = call.method, !.operation = call.operation,
                          !.table = call.table, !.hashAttribute = call.hashAttribute,
                          !.sentSchema = call.sentSchema,
                          !.schemaAtCall = call.schemaAtCall,
                          !.threw = (call.form # "plain"), !.stale = call.stale,
                          !.data = IF call.form = "plain" THEN "empty" ELSE "none" ]
    /\ UNCHANGED <<cacheVars, stale>>
    /\ UNCHANGED notClient

\* setSchema(s)
SetSchema(s) ==
    /\ s # schema
    /\ schema' = s
    /\ last' = NoLast
    /\ UNCHANGED <<configVars, now, queryCache, obs, calls, stale>>
    /\ UNCHANGED notClient

\* a step of the client that changes the store to d and returns nothing
StoreStep(d) ==
    /\ queryCache' = d
    /\ stale' = stale \ Gone(queryCache, d, EmptyKey)
    /\ calls' = Forget(calls, Gone(queryCache, d, EmptyKey))
    /\ last' = NoLast
    /\ UNCHANGED <<configVars, schema, obs>>
    /\ UNCHANGED notClient

\* the public clearCache()
ClearCache ==
    /\ queryCache # <<>>
    /\ StoreStep(clearCache(queryCache))
    /\ UNCHANGED now

\* the public invalidateTableCache(table) of a caller
InvalidateTable(table, schemaArg) ==
    /\ queryCache # <<>>
    /\ StoreStep(invalidateTableCache(queryCache, table, schemaArg))
    /\ UNCHANGED now

\* the interval timer of startCacheCleanup
CleanupSweep ==
    /\ enableCache
    /\ queryCache # <<>>
    /\ StoreStep(cleanup(queryCache))
    /\ UNCHANGED now

\* time passes
ClockTick ==
    /\ now < MaxTime
    /\ now' = now + 1
    /\ last' = NoLast
    /\ UNCHANGED <<configVars, schema, queryCache, obs, calls, stale>>
    /\ UNCHANGED notClient

Next ==
    \/ \E c \in Callers, table \in ClientTables, useCacheOpt \in UseCacheOpts,
          ttlOpt \in TtlOpts :
           \/ Select(c, table, JUndef, useCacheOpt, ttlOpt)
           \/ \E where \in Wheres : Select(c, table, where, useCacheOpt, ttlOpt)
    \/ \E c \in Callers, method \in WriteMethods, table \in ClientTables,
          hashAttribute \in HashAttributes :
           Write(c, method, table, hashAttribute)
    \/ \E c \in Callers, data \in ClientPayloads : QueryResolved(c, data)
    \/ \E c \in Callers : QueryRejected(c)
    \/ \E s \in Schemas : SetSchema(s)
    \/ ClearCache
    \/ \E table \in ClientTables : InvalidateTable(table, "")
    \/ CleanupSweep
    \/ ClockTick

Spec == ClientInit /\ [][Next]_vars

(***************************************************************************)
(* SpecBulk: one bulk write (insertMany, insertManyParallel, updateMany,   *)
(* upsertMany, deleteMany) on a client.  The call runs to its first await; *)
(* every later step is the executeQuery of one group resolving or          *)
(* rejecting, followed by the code up to the next await or the return.     *)
(* lodash's chunk(array, size) is not part of the sources; it is modelled  *)
(* by its documented behaviour.                                            *)
(***************************************************************************)
MaxRecords == 3

\* options?.batchSize || 1000
DefaultBatchSize == 1000

\* this.getConfig().poolSize || 10, with the constructor's default poolSize
DefaultPoolSize == 10

BulkMethods     == {"insertMany", "insertManyParallel", "updateMany", "upsertMany",
                    "deleteMany"}
ParallelMethods == {"insertManyParallel", "upsertMany"}
BatchSizeOpts   == {0, 1, 2}      \* options.batchSize, 0 : not given
ConcurrencyOpts == {0, 1, 2}      \* options.concurrency, 0 : not given
ErrorMessages   == {"e1", "e2"}   \* error.message of a rejected executeQuery

\* the operation a bulk method passes to executeQuery
OperationOf(kind) ==
    CASE kind \in {"insertMany", "insertManyParallel"} -> "insert"
      [] kind = "updateMany" -> "update"
      [] kind = "upsertMany" -> "upsert"
      [] kind = "deleteMany" -> "delete"

Min(a, b) == IF a < b THEN a ELSE b

\* lodash chunk(array, size)
chunk(array, size) ==
    IF size < 1 THEN <<>>
    ELSE [ b \in 1..((Len(array) + size - 1) \div size) |->
             SubSeq(array, (b - 1) * size + 1, Min(b * size, Len(array))) ]

\* the records (or hash values) of a call, named by their input positions
Records(n) == [k \in 1..n |-> k - 1]

\* batches[batchIndex], with the code's index from 0
BatchOf(j, b) == j.batches[b + 1]

\* this.invalidateTableCache(table, schema || this.getSchema()) in a job
Invalidate(j) == [j EXCEPT !.invalidations = Append(@, j.okGroups)]

\* the loop header of a bulk method with nothing in flight: post the next
\* group (sequential methods) or the next batchGroup (parallel methods), or
\* leave the loop and return; upsertMany invalidates before it returns
DispatchMutant(j) ==
    IF j.i < Len(j.batches)
    THEN LET last1 == IF j.kind \in ParallelMethods
                      THEN Min(j.i + j.concurrency + 1, Len(j.batches)) - 1
                      ELSE j.i
         IN  [j EXCEPT !.inflight = j.i .. last1,
                       !.sent = @ \o [k \in 1..(last1 - j.i + 1) |-> j.i + k - 1]]
    ELSE [ (IF j.kind = "upsertMany" THEN Invalidate(j) ELSE j)
             EXCEPT !.phase = "completed" ]

Dispatch(j) ==
    IF j.i < Len(j.batches)
    THEN LET last1 == IF j.kind \in ParallelMethods
                      THEN Min(j.i + j.concurrency, Len(j.batches)) - 1
                      ELSE j.i
         IN  [j EXCEPT !.inflight = j.i .. last1,
                       !.sent = @ \o [k \in 1..(last1 - j.i + 1) |-> j.i + k - 1]]
    ELSE [ (IF j.kind = "upsertMany" THEN Invalidate(j) ELSE j)
             EXCEPT !.phase = "completed" ]

\* the catch block of a group: failed += batch.length and one error entry
\* per record, with index startIdx + idx
RecordFailureMutant(j, b, message) ==
    [j EXCEPT !.failed = @ + Len(BatchOf(j, b)),
              !.rejected = @ \cup {[group |-> b, message |-> message]},
              !.errors = @ \o [idx \in 1..Len(BatchOf(j, b)) |->
                                 [index |-> idx - 1, error |-> message]]]

RecordFailure(j, b, message) ==
    [j EXCEPT !.failed = @ + Len(BatchOf(j, b)),
              !.rejected = @ \cup {[group |-> b, message |-> message]},
              !.errors = @ \o [idx \in 1..Len(BatchOf(j, b)) |->
                                 [index |-> b * j.batchSize + (idx - 1),
                                  error |-> message]]]

\* the value a bulk method returns; hasErrors is FALSE where the errors
\* property is undefined (errors.length > 0 ? errors : undefined)
BulkResult(j) ==
    [ successful |-> j.successful, failed |-> j.failed,
      hasErrors |-> Len(j.errors) > 0,
      errors |-> IF Len(j.errors) > 0 THEN j.errors ELSE <<>> ]

\* the try block of a group after executeQuery resolved
RecordSuccess(j, b) ==
    LET j1 == [j EXCEPT !.successful = @ + Len(BatchOf(j, b)),
                        !.okGroups = @ \cup {b}]
    IN  IF j.kind \notin ParallelMethods /\ j.kind # "upsertMany"
           /\ b = Len(j.batches) - 1
        THEN Invalidate(j1)
        ELSE j1

\* group b has settled: a sequential method goes to the next batchIndex; a
\* parallel method waits for Promise.all of the batchGroup, then goes on
\* with i += concurrency
ContinueMutant(j, b) ==
    LET j1 == [j EXCEPT !.inflight = @ \ {b}]
    IN  IF \E r \in j.rejected : r.group = b
        THEN [j1 EXCEPT !.phase = "threw", !.inflight = {}]
        ELSE IF j1.inflight # {} THEN j1
        ELSE Dispatch([j1 EXCEPT !.i = IF j.kind \in ParallelMethods
                                       THEN j.i + j.concurrency
                                       ELSE j.i + 1])

Continue(j, b) ==
    LET j1 == [j EXCEPT !.inflight = @ \ {b}]
    IN  IF j1.inflight # {} THEN j1
        ELSE Dispatch([j1 EXCEPT !.i = IF j.kind \in ParallelMethods
                                       THEN j.i + j.concurrency
                                       ELSE j.i + 1])

\* the store after a step that took the job from j to j2
StoreAfter(j, j2) ==
    IF Len(j2.invalidations) > Len(j.invalidations)
    THEN invalidateTableCache(queryCache, j2.table, StrOr(j2.schemaLocal, schema))
    ELSE queryCache

BulkInit ==
    /\ RetryIdle
    /\ KeyIdle
    /\ CacheIdle
    /\ ClientIdle
    /\ BulkIdle
    /\ ParIdle
    /\ ExecIdle
    /\ ApplyIdle
    /\ RaceIdle
    /\ HelperIdle

\* kind(table, records, options) up to its first await
BulkCall(kind, table, n, batchSizeOpt, concurrencyOpt, hashAttribute) ==
    /\ job.phase = "none"
    /\ LET j0 == [ NoJob EXCEPT
                     !.phase = "running", !.kind = kind, !.table = table, !.n = n,
                     !.batchSize = IF batchSizeOpt # 0 THEN batchSizeOpt
                                   ELSE DefaultBatchSize,
                     !.concurrency = IF kind \notin ParallelMethods THEN 0
                                     ELSE IF concurrencyOpt # 0 THEN concurrencyOpt
                                     ELSE DefaultPoolSize,
                     !.schemaLocal = IF hashAttribute # "" THEN "" ELSE schema,
                     !.batches = chunk(Records(n),
                                       IF batchSizeOpt # 0 THEN batchSizeOpt
                                       ELSE DefaultBatchSize) ]
       IN  /\ job' = Dispatch(j0)
           /\ queryCache' = StoreAfter(job, job')
    /\ UNCHANGED <<configVars, schema, now, obs>>
    /\ UNCHANGED notBulk

\* the executeQuery of group b resolved
GroupResolvedMutant(b) ==
    /\ job.phase = "running"
    /\ b \in job.inflight
    /\ job' = [RecordSuccess(job, b) EXCEPT !.inflight = @ \ {b}]
    /\ queryCache' = StoreAfter(job, job')
    /\ UNCHANGED <<configVars, schema, now, obs>>
    /\ UNCHANGED notBulk

GroupResolved(b) ==
    /\ job.phase = "running"
    /\ b \in job.inflight
    /\ job' = Continue(RecordSuccess(job, b), b)
    /\ queryCache' = StoreAfter(job, job')
    /\ UNCHANGED <<configVars, schema, now, obs>>
    /\ UNCHANGED notBulk

\* the executeQuery of group b rejected with an error
GroupRejected(b, message) ==
    /\ job.phase = "running"
    /\ b \in job.inflight
    /\ job' = Continue(RecordFailure(job, b, message), b)
    /\ queryCache' = StoreAfter(job, job')
    /\ UNCHANGED <<configVars, schema, now, obs>>
    /\ UNCHANGED notBulk

BulkNext ==
    \/ \E kind \in BulkMethods, table \in ClientTables, n \in 0..MaxRecords,
          batchSizeOpt \in BatchSizeOpts, hashAttribute \in HashAttributes :
           \E concurrencyOpt \in IF kind \in ParallelMethods THEN ConcurrencyOpts ELSE {0} :
               BulkCall(kind, table, n, batchSizeOpt, concurrencyOpt, hashAttribute)
    \/ \E b \in 0..(MaxRecords - 1) : GroupResolved(b)
    \/ \E b \in 0..(MaxRecords - 1), message \in ErrorMessages : GroupRejected(b, message)

SpecBulk == BulkInit /\ [][BulkNext]_vars

\* The executeQuery of group b settles: it resolves or it rejects.
GroupSettles(b) ==
    GroupResolved(b) \/ \E message \in ErrorMessages : GroupRejected(b, message)

\* SpecBulkFair: the bulk write under the condition that the executeQuery
\* of every group in flight settles in the end (the transport answers or
\* its timeout fires, and the interceptor's retries are bounded).
SpecBulkFair ==
    SpecBulk /\ \A b \in 0..(MaxRecords - 1) : WF_vars(GroupSettles(b))

(***************************************************************************)
(* SpecParallel: one call of HarperDB.parallel.  queries.map starts the    *)
(* method of every query in one synchronous pass; each method posts one    *)
(* request, and the requests resolve or reject in any order.  The client   *)
(* is built with caching off, so executeQuery always posts and the         *)
(* invalidation after a write finds an empty cache.                        *)
(***************************************************************************)
MaxOps == 3

QueryTypes == {"select", "insert", "update", "upsert", "delete", "sql", "other"}

\* A query of the argument: its type and whether options.where is given.
Queries == { q \in [type : QueryTypes, where : BOOLEAN] : q.where => q.type = "select" }

QueryLists == UNION { [1..n -> Queries] : n \in 0..MaxOps }

FailFastOpts == {"unset", "false", "true"}

\* The message of the error the request of operation k is rejected with.
OpErrors == <<"e1", "e2", "e3", "e4">>

UnknownQueryType == "Unknown query type"

\* The switch of queries.map: every listed type calls its method; any other
\* type is Promise.reject(new Error('Unknown query type: ...')).
KnownType(q) == q.type \in {"select", "insert", "update", "upsert", "delete", "sql"}

\* select without where (and without sql) wraps its request in try/catch
\* and returns data: [] when the request fails.
CatchesFailure(q) == q.type = "select" /\ ~q.where

\* promise.catch of queries.map: with failFast the error is thrown again,
\* without it the promise resolves with {data: null, error: message}.
Caught(failFast, message) ==
    IF failFast
      THEN [st |-> "rejected", data |-> "none", error |-> message]
      ELSE [st |-> "placeholder", data |-> "null", error |-> message]

InFlight(p) == { k \in 1..Len(p.ops) : p.ops[k].st = "inflight" }

\* await Promise.all(queryPromises): it rejects with the first rejection
\* (k is the promise that rejected in this step) and resolves once every
\* promise resolved.  A settled Promise.all stays settled.
PromiseAll(p, k) ==
    IF p.phase # "running" THEN p
    ELSE IF k # 0
      THEN [p EXCEPT !.phase = "threw", !.error = p.ops[k].error]
    ELSE IF \A i \in 1..Len(p.ops) : p.ops[i].st \in {"value", "placeholder"}
      THEN [p EXCEPT !.phase = "returned"]
    ELSE p

\* The value parallel returns: successful counts the results without an
\* error property; a result's data is r.data ?? r, so a placeholder is
\* returned whole, with its error.
ParallelResult(p) ==
    LET successful == Cardinality({ k \in 1..Len(p.ops) : p.ops[k].st # "placeholder" })
    IN  [ successful |-> successful,
          failed     |-> Len(p.ops) - successful,
          results    |-> [ k \in 1..Len(p.ops) |->
                             IF p.ops[k].st = "placeholder"
                               THEN [data |-> "null", error |-> p.ops[k].error]
                               ELSE [data |-> p.ops[k].data, error |-> ""] ] ]

Lowest(S) == CHOOSE k \in S : \A i \in S : k <= i

ParallelInit ==
    /\ RetryIdle
    /\ KeyIdle
    /\ CacheIdle
    /\ ClientIdle
    /\ BulkIdle
    /\ ParIdle
    /\ ExecIdle
    /\ ApplyIdle
    /\ RaceIdle
    /\ HelperIdle

ParallelCall(queries, concurrencyOpt, failFastOpt) ==
    /\ par.phase = "none"
    /\ LET concurrency == IF concurrencyOpt # 0 THEN concurrencyOpt ELSE DefaultPoolSize
           failFast    == failFastOpt = "true"
           unknown     == { k \in 1..Len(queries) : ~KnownType(queries[k]) }
           ops         == [ k \in 1..Len(queries) |->
                              IF k \in unknown
                                THEN Caught(failFast, UnknownQueryType)
                                ELSE [st |-> "inflight", data |-> "none", error |-> ""] ]
           started     == [ par EXCEPT !.phase = "running", !.queries = queries,
                                       !.concurrency = concurrency,
                                       !.failFast = failFast, !.ops = ops,
                                       !.requestFailed = unknown,
                                       !.firstFailed = IF unknown = {} THEN 0 ELSE Lowest(unknown),
                                       !.maxInflight = Len(queries) - Cardinality(unknown) ]
       IN  par' = PromiseAll(started, IF failFast /\ unknown # {} THEN Lowest(unknown) ELSE 0)
    /\ UNCHANGED notPar

OpResolved(k) ==
    /\ k \in InFlight(par)
    /\ par' = PromiseAll([par EXCEPT !.ops[k] = [st |-> "value", data |-> "rows", error |-> ""]], 0)
    /\ UNCHANGED notPar

OpRejected(k) ==
    /\ k \in InFlight(par)
    /\ LET op   == IF CatchesFailure(par.queries[k])
                     THEN [st |-> "value", data |-> "empty", error |-> ""]
                     ELSE Caught(par.failFast, OpErrors[k])
           next == [ par EXCEPT !.ops[k] = op,
                                !.requestFailed = @ \cup {k},
                                !.firstFailed = IF @ = 0 THEN k ELSE @ ]
       IN  par' = PromiseAll(next, IF op.st = "rejected" THEN k ELSE 0)
    /\ UNCHANGED notPar

ParallelNext ==
    \/ /\ par.phase = "none"
       /\ \E queries \in QueryLists, concurrencyOpt \in ConcurrencyOpts, failFastOpt \in FailFastOpts :
              ParallelCall(queries, concurrencyOpt, failFastOpt)
    \/ \E k \in 1..MaxOps : OpResolved(k)
    \/ \E k \in 1..MaxOps : OpRejected(k)

SpecParallel == ParallelInit /\ [][ParallelNext]_vars

(***************************************************************************)
(* SpecExec: HarperDBClient.executeQuery, called through the read methods  *)
(* of HarperDB and through insert, one call after the other, on a client   *)
(* built with caching on or off.  The transport (the interceptor and its   *)
(* retries included) resolves or rejects each post; the clock runs in      *)
(* between.                                                                *)
(***************************************************************************)
ExecUseCacheOpts == {"unset", "false", "true"}      \* options.useCache

\* response.data of the transport: message ("" for none) and data
Responses == [message : {"ok"}, data : {"p1"}]

\* The error the post is rejected with: error.response?.data?.error,
\* error.response?.data?.message and error.message ("" where the field, or
\* the response, is missing).
TransportErrors == [bodyError : {"", "be"}, bodyMessage : {"", "bm"}, message : {"", "em"}]

\* the response executeQuery builds on a cache hit
CachedResponseMutant(cached) ==
    HarperDBResponse(cached.message, cached.data, 0, TRUE)

CachedResponse(cached) ==
    HarperDBResponse(cached.message, cached.data, OrZero(cached.executionTime), TRUE)

\* error.response?.data?.error || error.response?.data?.message
\*     || error.message || 'Unknown error'
ErrorDetailMutant(failure) ==
    StrOr(failure.bodyMessage, StrOr(failure.bodyError, StrOr(failure.message, "Unknown error")))

ErrorDetail(failure) ==
    StrOr(failure.bodyError, StrOr(failure.bodyMessage, StrOr(failure.message, "Unknown error")))

QueryFailed(detail) == "HarperDB query failed: " \o detail

ExecInit ==
    /\ RetryIdle
    /\ KeyIdle
    /\ ClientIdle
    /\ BulkIdle
    /\ ParIdle
    /\ ExecIdle
    /\ ApplyIdle
    /\ RaceIdle
    /\ HelperIdle
    /\ enableCache \in BOOLEAN
    /\ maxCacheSize = 1
    /\ cacheTTL \in CacheTTLs
    /\ schema = "dev"
    /\ now = 0
    /\ queryCache = <<>>
    /\ obs = NoObs

\* a method of HarperDB calls executeQuery: answered from the store, or
\* posted and suspended in the await
ExecCall(method, table, useCacheOpt, ttlOpt) ==
    /\ exec.st # "waiting"
    /\ LET q      == MethodRequest(method, schema, table)
           r      == executeQueryStart(q, useCacheOpt)
           key    == ClientKeyOf[q]
           fresh  == /\ key # EmptyKey
                     /\ MapHas(queryCache, key)
                     /\ ~IsExpired(MapGet(queryCache, key), now)
           repeat == /\ exec.st = "returned"
                     /\ exec.posted
                     /\ exec.method = method
                     /\ exec.table = table
                     /\ exec.useCacheOpt = useCacheOpt
                     /\ exec.ttlOpt = ttlOpt
                     /\ now - exec.returnedAt < EffectiveTTL(ttlOpt)
           call   == [ NoExec EXCEPT
                         !.method = method, !.table = table,
                         !.useCacheOpt = useCacheOpt,
                         !.ttlOpt = ttlOpt, !.cacheKey = r.cacheKey,
                         !.useCache = r.useCache, !.startTime = now,
                         !.untouched = (r.cache = queryCache),
                         !.fresh = fresh, !.repeat = repeat ]
       IN  /\ queryCache' = r.cache
           /\ exec' = IF r.hit
                      THEN [ call EXCEPT !.st = "returned", !.startTime = 0,
                                         !.result = CachedResponse(r.data) ]
                      ELSE [ call EXCEPT !.st = "waiting", !.posted = TRUE ]
    /\ UNCHANGED <<configVars, schema, now, obs>>
    /\ UNCHANGED notExec

\* the post resolved with response: executeQuery builds the result, stores
\* it when the call uses the cache, and returns it
ExecResolved(response) ==
    /\ exec.st = "waiting"
    /\ LET result == HarperDBResponse(StrOr(response.message, "Success"), response.data,
                                      now - exec.startTime, FALSE)
           d      == executeQueryStore(exec, result)
       IN  /\ queryCache' = d
           /\ exec' = [ exec EXCEPT !.st = "returned", !.startTime = 0,
                                    !.result = result,
                                    !.untouched = @ /\ (d = queryCache),
                                    !.returnedAt = now ]
    /\ UNCHANGED <<configVars, schema, now, obs>>
    /\ UNCHANGED notExec

\* ExecRejected storing the failure under the key of the call
ExecRejectedMutant(failure) ==
    /\ exec.st = "waiting"
    /\ exec' = [ exec EXCEPT !.st = "threw", !.startTime = 0, !.failure = failure,
                             !.error = QueryFailed(ErrorDetail(failure)) ]
    /\ queryCache' = executeQueryStore(exec, NoResponse)
    /\ UNCHANGED <<configVars, schema, now, obs>>
    /\ UNCHANGED notExec

\* the post rejected (after the interceptor's retries): the catch block
\* throws 'HarperDB query failed: ...'
ExecRejected(failure) ==
    /\ exec.st = "waiting"
    /\ exec' = [ exec EXCEPT !.st = "threw", !.startTime = 0, !.failure = failure,
                             !.error = QueryFailed(ErrorDetail(failure)) ]
    /\ UNCHANGED cacheVars
    /\ UNCHANGED notExec

ExecNext ==
    \/ \E method \in ExecMethods, table \in ClientTables,
          useCacheOpt \in ExecUseCacheOpts, ttlOpt \in TtlOpts :
           ExecCall(method, table, useCacheOpt, ttlOpt)
    \/ \E response \in Responses : ExecResolved(response)
    \/ \E failure \in TransportErrors : ExecRejected(failure)
    \/ ClockTick

SpecExec == ExecInit /\ [][ExecNext]_vars

(***************************************************************************)
(* applySchema (harperdb.ts).  The method is a loop over the types with    *)
(* one await per request; between two awaits it runs without interruption. *)
(* A step of the model runs it from one await to the next.  Its requests   *)
(* are answered by the server: each resolves or rejects, and the two       *)
(* existence checks resolve to a boolean (they catch their own failures).  *)
(* A data operation of another caller may be issued at any await.          *)
(***************************************************************************)

MaxTypes == 2

\* GraphQLSchemaType: the schema and name of a type and the number of its
\* fields that are indexed and not the hash attribute
GraphQLSchemaTypes == [ schema : Schemas, name : ClientTables, indexed : 0..1 ]

TypeLists == UNION { [1..n -> GraphQLSchemaTypes] : n \in 0..MaxTypes }

\* what an awaited call can settle with
Outcomes(pc) ==
    CASE pc \in {"schemaExists", "tableExists"} -> {"true", "false"}
      [] pc = "createSchema" -> {"ok", "fail", "already exists"}
      [] pc \in {"dropTable", "createTable", "insert", "delete", "createIndex"} ->
           {"ok", "fail"}
      [] OTHER -> {}

\* the awaits of applySchema during which the configured schema is the
\* schema of the type
TemporarySchemaAwaits ==
    {"tableExists", "dropTable", "createTable", "insert", "delete", "createIndex"}

\* The machine state m is [a : the applySchema call, schema : the configured
\* schema].
ApplyType(m) == m.a.types[m.a.t]

\* TableCheck without its setSchema(type.schema)
TableCheckMutant(m) ==
    [ a |-> [ m.a EXCEPT !.originalSchema = m.schema, !.tableExists = FALSE,
                         !.pc = "tableExists" ],
      schema |-> m.schema ]

\* originalSchema = getSchema(); try { setSchema(type.schema);
\* await tableExists(type.name)
TableCheck(m) ==
    [ a |-> [ m.a EXCEPT !.originalSchema = m.schema, !.tableExists = FALSE,
                         !.pc = "tableExists" ],
      schema |-> ApplyType(m).schema ]

\* the head of the loop over the types, up to its first await; after the
\* last type applySchema returns
BeginType(m) ==
    IF m.a.t > Len(m.a.types)
    THEN [ m EXCEPT !.a.phase = "returned", !.a.pc = "none" ]
    ELSE IF ApplyType(m).schema \notin m.a.schemasCreated
         THEN [ m EXCEPT !.a.pc = "schemaExists" ]
         ELSE TableCheck(m)

NextType(m) == BeginType([ m EXCEPT !.a.t = @ + 1, !.a.f = 0 ])

\* the catch of the loop body: errors.push({ type: 'table', ... })
TypeFailed(m) ==
    NextType([ m EXCEPT !.a.errors = Append(@, <<"table", m.a.t>>) ])

\* the loop over the fields, up to the await of createIndex
IndexLoop(m) ==
    IF m.a.f < ApplyType(m).indexed
    THEN [ m EXCEPT !.a.pc = "createIndex", !.schema = ApplyType(m).schema ]
    ELSE NextType(m)

\* after the force branch: skipExisting, then the creation of the table
AfterDrop(m) ==
    IF m.a.tableExists /\ m.a.skipExisting
    THEN NextType(m)
    ELSE IF ~m.a.tableExists \/ m.a.force
         THEN [ m EXCEPT !.a.pc = "createTable", !.schema = ApplyType(m).schema ]
         ELSE IndexLoop(m)

\* finally { setSchema(originalSchema) }
RestoreSchema(m) == [ m EXCEPT !.schema = m.a.originalSchema ]

\* applySchema resumed from the await of the call pc, which settled with
\* outcome, up to its next await or its return.  The failure of dropTable
\* in the force branch leaves through the catch of the loop body with no
\* setSchema(originalSchema) on the way.
Resume(m, outcome) ==
    LET pc      == m.a.pc
        created == [ m EXCEPT !.a.schemasCreated = @ \cup {ApplyType(m).schema} ]
    IN  CASE pc = "schemaExists" ->
               IF outcome = "true" THEN TableCheck(created)
               ELSE [ m EXCEPT !.a.pc = "createSchema" ]
          [] pc = "createSchema" ->
               IF outcome = "fail" THEN TypeFailed(m) ELSE TableCheck(created)
          [] pc = "tableExists" ->
               LET r == [ RestoreSchema(m) EXCEPT !.a.tableExists = (outcome = "true") ]
               IN  IF r.a.tableExists /\ r.a.force
                   THEN [ r EXCEPT !.a.pc = "dropTable", !.schema = ApplyType(m).schema ]
                   ELSE AfterDrop(r)
          [] pc = "dropTable" ->
               IF outcome = "ok" THEN AfterDrop(RestoreSchema(m)) ELSE TypeFailed(m)
          [] pc = "createTable" ->
               IF outcome = "ok" THEN [ m EXCEPT !.a.pc = "insert" ]
               ELSE TypeFailed(RestoreSchema(m))
          [] pc = "insert" ->
               IF outcome = "ok" THEN [ m EXCEPT !.a.pc = "delete" ]
               ELSE IndexLoop(RestoreSchema(m))
          [] pc = "delete" -> IndexLoop(RestoreSchema(m))
          [] pc = "createIndex" ->
               LET r == [ RestoreSchema(m) EXCEPT !.a.f = @ + 1 ]
               IN  IndexLoop(IF outcome = "ok" THEN r
                             ELSE [ r EXCEPT !.a.errors = Append(@, <<"index", m.a.t>>) ])

ApplyInit ==
    /\ RetryIdle
    /\ KeyIdle
    /\ ClientIdle
    /\ BulkIdle
    /\ ParIdle
    /\ ExecIdle
    /\ ApplyIdle
    /\ RaceIdle
    /\ HelperIdle
    /\ enableCache = FALSE
    /\ maxCacheSize = 0
    /\ cacheTTL \in CacheTTLs
    /\ schema \in Schemas
    /\ now = 0
    /\ queryCache = <<>>
    /\ obs = NoObs

\* applySchema(types, { force, skipExisting }), up to its first await
ApplyCall(types, force, skipExisting) ==
    /\ apply.phase = "idle"
    /\ LET m == BeginType([ a |-> [ NoApply EXCEPT
                                      !.phase = "running", !.types = types,
                                      !.force = force, !.skipExisting = skipExisting,
                                      !.t = 1, !.schemaAtCall = schema ],
                            schema |-> schema ])
       IN  /\ apply' = m.a
           /\ schema' = m.schema
    /\ UNCHANGED <<configVars, now, queryCache, obs, clientVars>>
    /\ UNCHANGED notApply

\* the call applySchema awaits settled
ApplyStep(outcome) ==
    /\ apply.phase = "running"
    /\ outcome \in Outcomes(apply.pc)
    /\ LET m == Resume([ a |-> apply, schema |-> schema ], outcome)
       IN  /\ apply' = m.a
           /\ schema' = m.schema
    /\ UNCHANGED <<configVars, now, queryCache, obs, clientVars>>
    /\ UNCHANGED notApply

AllOutcomes == {"true", "false", "ok", "fail", "already exists"}

ApplyNext ==
    \/ /\ apply.phase = "idle"
       /\ \E types \in TypeLists, force \in BOOLEAN, skipExisting \in BOOLEAN :
            ApplyCall(types, force, skipExisting)
    \/ \E outcome \in AllOutcomes : ApplyStep(outcome)
    \/ \E c \in Callers, table \in ClientTables : Write(c, "update", table, "")
    \/ \E c \in Callers, data \in ClientPayloads : QueryResolved(c, data)
    \/ \E c \in Callers : QueryRejected(c)

SpecApply == ApplyInit /\ [][ApplyNext]_vars

(***************************************************************************)
(* Two callers of one client.  One calls select with where (and           *)
(* optionally orderBy), the other update or updateByValue, on the one      *)
(* table; the methods run as in harperdb.ts, suspended in the post of      *)
(* executeQuery until the transport settles it.  The data of a response is an array:    *)
(* the model keeps the values of the orderBy attribute of its records, in  *)
(* order.  The array that executeQuery stores in the cache entry, the      *)
(* array of the response it returns and the array select sorts are one     *)
(* object.                                                                 *)
(***************************************************************************)

RaceTable == "orders"
RaceWhere == JObj(<<Member("id", JStr("1"))>>)

\* the arrays the transport delivers for a search, and for a write
RaceRows   == { <<2, 1>> }
WriteReply == <<>>

Directions == {"none", "asc", "desc"}     \* "none" : options.orderBy not given

\* the methods each caller calls
RaceMethods == [ a |-> {"select"}, b |-> {"update", "updateByValue"} ]

\* data.sort((a, b) => ...): the comparator of select
Before(x, y, direction) == IF direction = "desc" THEN x > y ELSE x < y

RECURSIVE SortRows(_, _)
SortRows(rows, direction) ==
    IF rows = <<>> THEN <<>>
    ELSE LET rest == SortRows(Tail(rows), direction)
             x    == Head(rows)
             k    == Cardinality({ i \in 1..Len(rest) : ~Before(x, rest[i], direction)
                                                       /\ rest[i] # x })
         IN  SubSeq(rest, 1, k) \o <<x>> \o SubSeq(rest, k + 1, Len(rest))

\* the array of the entry of key sorted where it is
SortInPlace(c, key, direction) ==
    [ i \in 1..Len(c) |->
        IF c[i].key = key THEN [ c[i] EXCEPT !.data = SortRows(@, direction) ]
        ELSE c[i] ]

\* if (options?.orderBy) data = data.sort(...)
Ordered(c, key, direction) ==
    IF direction = "none" THEN c ELSE SortInPlace(c, key, direction)

OrderedRows(rows, direction) ==
    IF direction = "none" THEN rows ELSE SortRows(rows, direction)

\* the operation and body a method passes to executeQuery
RaceRequest(method, schemaName) ==
    CASE method = "select" -> SelectRequest(schemaName, RaceTable, RaceWhere)
      [] method = "update" -> WriteRequest("update", schemaName, RaceTable, "")
      [] method = "updateByValue" -> UpdateByValueRequest(schemaName, RaceTable)

\* the ghost fields of race after a step that leaves the store as d
KeptReceived(d) == { x \in race.received : MapHas(d, x[1]) }
KeptEarly(d)    == { k \in race.early : MapHas(d, k) }

WireOf(key) ==
    IF \E x \in race.received : x[1] = key
    THEN (CHOOSE x \in race.received : x[1] = key)[2]
    ELSE <<>>

RaceInit ==
    /\ RetryIdle
    /\ KeyIdle
    /\ ClientIdle
    /\ BulkIdle
    /\ ParIdle
    /\ ExecIdle
    /\ ApplyIdle
    /\ RaceIdle
    /\ HelperIdle
    /\ enableCache = TRUE
    /\ maxCacheSize = 2
    /\ cacheTTL \in CacheTTLs
    /\ schema = "dev"
    /\ now = 0
    /\ queryCache = <<>>
    /\ obs = NoObs

\* select(table, { where, orderBy }), update(table, record) or
\* updateByValue(table, ...) called by c: executeQuery answers from the
\* store or posts the request.  On a hit select sorts the array of the
\* entry, and updateByValue goes on to invalidateTableCache.
RaceCall(c, method, direction) ==
    /\ race.ops[c].st # "waiting"
    /\ method \in RaceMethods[c]
    /\ method # "select" => direction = "none"
    /\ LET q  == RaceRequest(method, schema)
           r  == executeQueryStart(q, "unset")
           op == [ IdleOp EXCEPT
                     !.method = method, !.direction = direction,
                     !.cacheKey = r.cacheKey, !.useCache = r.useCache,
                     !.schemaName = schema ]
           d  == IF ~r.hit THEN r.cache
                 ELSE IF method = "select" THEN Ordered(r.cache, r.cacheKey, direction)
                 ELSE invalidateTableCache(r.cache, RaceTable, schema)
       IN  /\ queryCache' = d
           /\ race' =
                [ race EXCEPT
                    !.ops[c] = IF r.hit
                               THEN [ op EXCEPT !.st = "returned", !.cached = TRUE,
                                                !.data = OrderedRows(r.data, direction),
                                                !.wire = WireOf(r.cacheKey) ]
                               ELSE [ op EXCEPT !.st = "waiting", !.posted = TRUE ],
                    !.received = KeptReceived(d),
                    !.early = KeptEarly(d) ]
    /\ UNCHANGED <<configVars, schema, now, obs>>
    /\ UNCHANGED notRace

\* the post of c resolved with rows: executeQuery stores the response
\* under the key of the call; select then sorts the array when orderBy is
\* given; update and updateByValue call invalidateTableCache(table, schema)
RaceResolved(c, rows) ==
    /\ race.ops[c].st = "waiting"
    /\ LET op     == race.ops[c]
           write  == op.method # "select"
           stored == executeQueryStore(op, rows)
           d      == IF write
                     THEN invalidateTableCache(stored, RaceTable, op.schemaName)
                     ELSE Ordered(stored, op.cacheKey, op.direction)
           set    == op.cacheKey # EmptyKey /\ MapHas(d, op.cacheKey)
           done   == [ op EXCEPT !.st = "returned",
                                 !.data = OrderedRows(rows, op.direction) ]
       IN  /\ rows = WriteReply <=> write
           /\ queryCache' = d
           /\ race' =
                [ race EXCEPT
                    !.ops = [ o \in RaceCallers |->
                                IF o = c THEN done
                                ELSE IF write /\ race.ops[o].st = "waiting"
                                              /\ race.ops[o].method = "select"
                                     THEN [ race.ops[o] EXCEPT !.early = TRUE ]
                                     ELSE race.ops[o] ],
                    !.received =
                        IF set
                        THEN { x \in KeptReceived(d) : x[1] # op.cacheKey }
                             \cup { <<op.cacheKey, rows>> }
                        ELSE KeptReceived(d),
                    !.early =
                        IF set /\ op.early THEN KeptEarly(d) \cup {op.cacheKey}
                        ELSE IF set THEN KeptEarly(d) \ {op.cacheKey}
                        ELSE KeptEarly(d) ]
    /\ UNCHANGED <<configVars, schema, now, obs>>
    /\ UNCHANGED notRace

\* the post of c rejected: executeQuery throws and the method rejects
RaceRejected(c) ==
    /\ race.ops[c].st = "waiting"
    /\ race' = [ race EXCEPT !.ops[c].st = "returned", !.ops[c].threw = TRUE ]
    /\ UNCHANGED cacheVars
    /\ UNCHANGED notRace

RaceNext ==
    \/ \E direction \in Directions : RaceCall("a", "select", direction)
    \/ \E method \in RaceMethods["b"] : RaceCall("b", method, "none")
    \/ \E c \in RaceCallers, rows \in RaceRows \cup {WriteReply} : RaceResolved(c, rows)
    \/ \E c \in RaceCallers : RaceRejected(c)
    \/ ClockTick

SpecRace == RaceInit /\ [][RaceNext]_vars

(***************************************************************************)
(* HarperDB.batch(operations, { concurrency, failFast }).  An operation is *)
(* a function returning a promise; the model calls it (it becomes pending) *)
(* and lets its promise fulfil or reject at any later time, also after     *)
(* batch has thrown.                                                       *)
(***************************************************************************)

BatchValue == "v"                     \* the value of a fulfilled operation
ReasonMessages == {"e1", "e2", ""}    \* reason.message, "" : none
UnknownError == "Unknown error"

\* the operations of the wave batch awaits: operations.slice(i, i + concurrency)
BatchWave(b) == { k \in 1..b.n : b.i < k /\ k <= b.i + b.concurrency }

\* a wave in which some promise has settled
WaveSettledMutant(b) == \E k \in BatchWave(b) : b.ops[k].st # "pending"

\* Promise.allSettled(batchPromises) resolves: no promise of the wave is pending
WaveSettled(b) == \A k \in BatchWave(b) : b.ops[k].st # "pending"

\* the entry of results for a promise: { success: true, data } or
\* { success: false, error: reason?.message || 'Unknown error' }
BatchEntry(op) ==
    IF op.st = "fulfilled"
    THEN [success |-> TRUE, data |-> op.value, error |-> ""]
    ELSE [success |-> FALSE, data |-> "",
          error |-> IF op.message # "" THEN op.message ELSE UnknownError]

\* the head of the loop: return after the last wave, else call the
\* operations of the next wave, in order, and await them
StartWave(b) ==
    IF b.i >= b.n THEN [b EXCEPT !.phase = "returned"]
    ELSE LET wave == BatchWave(b)
         IN  [b EXCEPT !.ops = [k \in 1..b.n |->
                                  IF k \in wave
                                  THEN [st |-> "pending", value |-> "", message |-> ""]
                                  ELSE b.ops[k]],
                       !.started = @ \o [j \in 1..Cardinality(wave) |-> b.i + j]]

\* results.push(...) for the wave, then i += concurrency
PushWave(b) ==
    LET wave == BatchWave(b)
    IN  StartWave([b EXCEPT
                     !.results = @ \o [j \in 1..Cardinality(wave) |-> BatchEntry(b.ops[b.i + j])],
                     !.i = @ + b.concurrency])

\* batch after the promise of operation k settled.  With failFast the
\* await of Promise.all throws at the first rejection of the wave and
\* goes on once every promise of the wave is fulfilled; without it the
\* await of Promise.allSettled goes on once the wave has settled.
BatchContinue(b, k) ==
    IF b.phase # "running" \/ k \notin BatchWave(b) THEN b
    ELSE IF b.failFast /\ b.ops[k].st = "rejected"
         THEN [b EXCEPT !.phase = "threw", !.error = b.ops[k].message]
    ELSE IF WaveSettled(b) THEN PushWave(b)
    ELSE b

BatchInit ==
    /\ RetryIdle
    /\ KeyIdle
    /\ CacheIdle
    /\ ClientIdle
    /\ BulkIdle
    /\ ParIdle
    /\ ExecIdle
    /\ ApplyIdle
    /\ RaceIdle
    /\ HelperIdle

\* batch(operations, options) up to its first await
BatchCall(n, concurrencyOpt, failFastOpt) ==
    /\ bat.phase = "none"
    /\ bat' = StartWave([ NoBat EXCEPT
                            !.phase = "running", !.n = n,
                            !.concurrency = IF concurrencyOpt # 0 THEN concurrencyOpt
                                            ELSE DefaultPoolSize,
                            !.failFast = (failFastOpt = "true"),
                            !.ops = [k \in 1..n |->
                                       [st |-> "unstarted", value |-> "", message |-> ""]] ])
    /\ UNCHANGED txn
    /\ UNCHANGED notHelper

\* the promise of operation k fulfilled
BatchOpFulfilled(k) ==
    /\ k \in 1..bat.n
    /\ bat.ops[k].st = "pending"
    /\ bat' = BatchContinue([bat EXCEPT !.ops[k].st = "fulfilled",
                                        !.ops[k].value = BatchValue], k)
    /\ UNCHANGED txn
    /\ UNCHANGED notHelper

\* the promise of operation k rejected with an error of this message
BatchOpRejected(k, message) ==
    /\ k \in 1..bat.n
    /\ bat.ops[k].st = "pending"
    /\ bat' = BatchContinue([bat EXCEPT !.ops[k].st = "rejected",
                                        !.ops[k].message = message], k)
    /\ UNCHANGED txn
    /\ UNCHANGED notHelper

BatchNext ==
    \/ /\ bat.phase = "none"
       /\ \E n \in 0..MaxOps, concurrencyOpt \in ConcurrencyOpts, failFastOpt \in FailFastOpts :
            BatchCall(n, concurrencyOpt, failFastOpt)
    \/ \E k \in 1..MaxOps : BatchOpFulfilled(k)
    \/ \E k \in 1..MaxOps, message \in ReasonMessages : BatchOpRejected(k, message)

SpecBatch == BatchInit /\ [][BatchNext]_vars

(***************************************************************************)
(* HarperDB.transaction(operations, { rollbackOnError }).  The operations  *)
(* are called and awaited one by one inside a try block.                   *)
(***************************************************************************)

TxnValues == {"v1", "v2"}             \* what an operation resolves with

\* for (const operation of operations) { await operation(): the next
\* operation is called, or the loop is over and transaction returns
\* success: true
TxnLoop(t) ==
    IF t.k >= t.n
    THEN [t EXCEPT !.phase = "returned", !.success = TRUE, !.k = 0]
    ELSE [t EXCEPT !.k = @ + 1, !.invoked = Append(@, t.k + 1)]

\* a catch block that undoes the completed operations when rollbackOnError
\* is set
TxnCatchMutant(t, message) ==
    [t EXCEPT !.phase = "returned", !.success = FALSE,
              !.error = IF message # "" THEN message ELSE UnknownError,
              !.failedAt = t.k, !.k = 0,
              !.applied = IF t.rollbackOnError THEN {} ELSE @]

\* the catch block: with rollbackOnError it does nothing more; it returns
\* success: false, the results so far and error.message || 'Unknown error'
TxnCatch(t, message) ==
    [t EXCEPT !.phase = "returned", !.success = FALSE,
              !.error = IF message # "" THEN message ELSE UnknownError,
              !.failedAt = t.k, !.k = 0]

TxnInit == BatchInit

\* transaction(operations, options) up to its first await
TxnCall(n, rollbackOnError) ==
    /\ txn.phase = "none"
    /\ txn' = TxnLoop([ NoTxn EXCEPT !.phase = "running", !.n = n,
                                     !.rollbackOnError = rollbackOnError ])
    /\ UNCHANGED bat
    /\ UNCHANGED notHelper

\* the operation awaited resolved with value: results.push(result)
TxnOpFulfilled(value) ==
    /\ txn.phase = "running"
    /\ txn' = TxnLoop([ txn EXCEPT !.results = Append(@, value),
                                   !.applied = @ \cup {<<txn.k, value>>} ])
    /\ UNCHANGED bat
    /\ UNCHANGED notHelper

\* the operation awaited rejected with an error of this message
TxnOpRejected(message) ==
    /\ txn.phase = "running"
    /\ txn' = TxnCatch(txn, message)
    /\ UNCHANGED bat
    /\ UNCHANGED notHelper

TxnNext ==
    \/ \E n \in 0..MaxOps, rollbackOnError \in BOOLEAN : TxnCall(n, rollbackOnError)
    \/ \E value \in TxnValues : TxnOpFulfilled(value)
    \/ \E message \in ReasonMessages : TxnOpRejected(message)

SpecTxn == TxnInit /\ [][TxnNext]_vars

(***************************************************************************)
(* Claims about the retry policy (checked under SpecRetry)                 *)
(***************************************************************************)

\* The transport of r fails with a 503 exactly failCount times, then succeeds.
Fails503(r) == req[r].failKind = Err503

\* C1 (as stated): a transport failing with 503 exactly R times and then
\* succeeding gives success after exactly R retry delays when R < maxRetries,
\* and a propagated failure after exactly maxRetries sends when
\* R >= maxRetries.  Stated for maxRetries >= 1, where "after maxRetries
\* sends" can be met at all.
C1_RetryBoundAsStated ==
    \A r \in Reqs :
        (Fails503(r) /\ Settled(r) /\ maxRetries >= 1) =>
            IF req[r].failCount < maxRetries
            THEN req[r].st = "ok" /\ Len(req[r].delays) = req[r].failCount
            ELSE req[r].st = "rejected" /\ req[r].sends = maxRetries

\* C1 (amended): with a 503 transport failing exactly R times, the request
\* succeeds after exactly R retry delays (R + 1 sends) when R <= maxRetries;
\* when R > maxRetries the failure is propagated after exactly maxRetries
\* retry delays, that is maxRetries + 1 sends in total.
C1_RetryBound ==
    \A r \in Reqs :
        (Fails503(r) /\ Settled(r)) =>
            IF req[r].failCount <= maxRetries
            THEN /\ req[r].st = "ok"
                 /\ Len(req[r].delays) = req[r].failCount
                 /\ req[r].sends = req[r].failCount + 1
            ELSE /\ req[r].st = "rejected"
                 /\ Len(req[r].delays) = maxRetries
                 /\ req[r].sends = maxRetries + 1

\* One request absorbed exactly maxRetries failures and succeeded, another
\* exhausted the budget and was rejected.
C1_Witness ==
    /\ maxRetries >= 2
    /\ \E r \in Reqs : /\ Fails503(r) /\ req[r].failCount = maxRetries
                       /\ req[r].st = "ok"
    /\ \E r \in Reqs : /\ Fails503(r) /\ req[r].failCount > maxRetries
                       /\ req[r].st = "rejected"

\* A failure that is neither a 5xx status nor a timeout/abort.
NonTransient(e) ==
    /\ ~(e.hasResponse /\ e.status \in 500..599)
    /\ e.code # "ECONNABORTED"

\* C2: a failure that is neither a 5xx status nor a timeout/abort is
\* propagated after exactly one send, with no retry delay and no resend,
\* whatever maxRetries is.
C2_NonRetryableShortCircuit ==
    \A r \in Reqs :
        (NonTransient(req[r].failKind) /\ req[r].failCount >= 1) =>
            /\ req[r].sends <= 1
            /\ req[r].delays = <<>>
            /\ req[r].st \in {"new", "inflight", "rejected"}
            /\ Settled(r) => (req[r].st = "rejected" /\ req[r].sends = 1)

\* A 4xx failure and a failure without a response were both propagated
\* while retries were still allowed.
C2_Witness ==
    /\ maxRetries >= 2
    /\ \E r \in Reqs : /\ req[r].failKind = Err400 /\ req[r].st = "rejected"
    /\ \E r \in Reqs : /\ req[r].failKind = ErrNetwork /\ req[r].st = "rejected"

\* C21: the delay waited before the k-th retry of a request is exactly
\* retryDelay * k, for every retry the request has made (k = 1..maxRetries).
C21_LinearBackoff ==
    \A r \in Reqs :
        /\ Len(req[r].delays) <= maxRetries
        /\ \A k \in 1..Len(req[r].delays) : req[r].delays[k] = retryDelay * k

\* A request waited retryDelay, 2 * retryDelay and 3 * retryDelay with a
\* retryDelay of 2.
C21_Witness ==
    \E r \in Reqs : retryDelay = 2 /\ req[r].delays = <<2, 4, 6>>

\* C22 (as stated): the delays between the successive retries of a request
\* grow exponentially: the delay before retry k + 1 is the delay before
\* retry k times one constant greater than 1.
C22_ExponentialBackoff ==
    \A r \in Reqs :
        LET d == req[r].delays
        IN  /\ \A k \in 1..(Len(d) - 1) : d[k + 1] > d[k]
            /\ \A k \in 1..(Len(d) - 2) : d[k + 2] * d[k] = d[k + 1] * d[k + 1]

\* C24: the retry counter belongs to one request.  With several requests
\* in flight together, the counter of a request counts its own retried
\* failures only: it is the number of delays the request waited, it is the
\* smaller of the request's own failures and maxRetries when the failures
\* are retryable, and a request is rejected for a retryable failure only
\* when it has itself made maxRetries retries.
C24_PerRequestRetryState ==
    \A r \in Reqs :
        /\ req[r].retryCount = Len(req[r].delays)
        /\ req[r].retryCount <= req[r].failures
        /\ IsRetryable(req[r].failKind) =>
              /\ req[r].retryCount = Min(req[r].failures, maxRetries)
              /\ req[r].st = "rejected" => req[r].retryCount = maxRetries

\* Two requests are in progress together: one waits for its last retry,
\* the other has used its whole budget and its last retry is in flight.
C24_Witness ==
    /\ maxRetries >= 2
    /\ req["r1"].st = "delay"
    /\ req["r1"].retryCount = maxRetries
    /\ req["r2"].st = "inflight"
    /\ req["r2"].retryCount = maxRetries
    /\ req["r2"].failCount > maxRetries

(***************************************************************************)
(* Claims about the cache key (checked under SpecKey)                      *)
(***************************************************************************)

PropNames(ms) == { ms[i].k : i \in 1..Len(ms) }

\* Two values that differ at most in the order of the properties of
\* objects nested in objects; arrays and scalars must be equal as they are.
RECURSIVE SameUpToKeyOrder(_, _)
SameUpToKeyOrder(x, y) ==
    IF x.t = "obj" /\ y.t = "obj"
    THEN /\ Len(x.v) = Len(y.v)
         /\ PropNames(x.v) = PropNames(y.v)
         /\ \A key \in PropNames(x.v) :
                SameUpToKeyOrder(GetProp(x.v, key), GetProp(y.v, key))
    ELSE x = y

IsEligible(operation) == toLowerCase(operation) \in cacheableOperations

C3_TTLExpiryAsStated ==
    \A key \in StoreKeys :
        (enableCache /\ MapHas(queryCache, key)) =>
            LET e == MapGet(queryCache, key)
                r == getCached(queryCache, key)
            IN  IF now < e.timestamp + e.ttl
                THEN r.hit /\ r.data = e.data
                ELSE ~r.hit /\ ~MapHas(r.cache, key)

\* C3 (amended): an entry stored at T with ttl D is returned by getCached
\* at every time up to and including T + D (the store is left as it is),
\* and is absent and removed from the store, alone, at every time after
\* T + D.
C3_TTLExpiry ==
    \A key \in StoreKeys :
        (enableCache /\ MapHas(queryCache, key)) =>
            LET e == MapGet(queryCache, key)
                r == getCached(queryCache, key)
            IN  IF now <= e.timestamp + e.ttl
                THEN r.hit /\ r.data = e.data /\ r.cache = queryCache
                ELSE /\ ~r.hit
                     /\ r.cache = SelectSeq(queryCache, LAMBDA x : x.key # key)

\* A lookup at exactly T + D was answered from the only entry of the store.
C3_Witness ==
    /\ obs.op = "get"
    /\ obs.hit
    /\ Len(queryCache) = 1
    /\ queryCache[1].ttl >= 1
    /\ now = queryCache[1].timestamp + queryCache[1].ttl
    /\ obs.data = queryCache[1].data

AllLive(c) == \A i \in 1..Len(c) : c[i].timestamp + c[i].ttl >= now

\* C4: with the store holding exactly maxCacheSize live entries, setCache
\* of a key not yet present removes exactly the oldest-inserted entry (the
\* first of the Map, whose key entered the store no later than any other)
\* and no other, and stores the new entry last; a getCached hit does not
\* change the store, hence not the eviction order.
C4_CapacityEviction ==
    /\ ( /\ enableCache
         /\ Len(queryCache) = maxCacheSize
         /\ Len(queryCache) >= 1
         /\ AllLive(queryCache) ) =>
           \A key \in StoreKeys, a \in SetArgs :
               ~MapHas(queryCache, key) =>
                   LET after == setCache(queryCache, key, a.data, a.ttl)
                       n     == Len(queryCache)
                   IN  /\ \A i \in 1..n :
                              queryCache[1].insertedAt <= queryCache[i].insertedAt
                       /\ ~MapHas(after, queryCache[1].key)
                       /\ Len(after) = n
                       /\ \A i \in 2..n : after[i - 1] = queryCache[i]
                       /\ after[n].key = key
                       /\ after[n].data = a.data
                       /\ after[n].timestamp = now
    /\ \A key \in StoreKeys :
           getCached(queryCache, key).hit =>
               getCached(queryCache, key).cache = queryCache

\* A setCache of a new key on a full store of two live entries evicted one.
C4_Witness ==
    /\ obs.op = "set"
    /\ obs.removed = 1
    /\ maxCacheSize = 2
    /\ Len(queryCache) = 2
    /\ queryCache[2].timestamp = now
    /\ queryCache[1].insertedAt < queryCache[2].insertedAt
    /\ AllLive(queryCache)

\* C31 (as stated): setCache of a key the store already holds replaces
\* that entry and removes no other entry, also when the store is at
\* capacity; and setCache of any key never leaves fewer entries than
\* there were.
C31_RePutRemovesNothingElse ==
    \A key \in StoreKeys, a \in SetArgs :
        LET after == setCache(queryCache, key, a.data, a.ttl)
        IN  /\ Len(after) >= Len(queryCache)
            /\ MapHas(queryCache, key) =>
                  \A i \in 1..Len(queryCache) : MapHas(after, queryCache[i].key)

\* The requests a key of the store was generated for.
StoreKeyOf == [q \in StoreRequests |-> generateCacheKey(q.operation, q.body)]

RequestsOf(key) == { q \in StoreRequests : StoreKeyOf[q] = key }

\* The request body names the table, with the schema or with no schema.
NamesTable(q, table, schemaName) ==
    /\ \E i \in 1..Len(q.body.v) :
          q.body.v[i].k = "table" /\ q.body.v[i].val = JStr(table)
    /\ \A i \in 1..Len(q.body.v) :
          q.body.v[i].k = "schema" => q.body.v[i].val = JStr(schemaName)

\* C6: invalidateTableCache(table, schema) removes every entry whose
\* request body names the table with that schema or with no schema, leaves
\* every other entry (another table, another schema, a key that does not
\* decode) in place and in order, and is defined on every store.
C6_InvalidationScoping ==
    \A table \in Tables, schemaArg \in Schemas \cup {""} :
        LET schemaName == IF schemaArg = "" THEN schema ELSE schemaArg
        IN  invalidateTableCache(queryCache, table, schemaArg) =
                SelectSeq(queryCache,
                          LAMBDA e : ~\E q \in RequestsOf(e.key) :
                                        NamesTable(q, table, schemaName))

\* An invalidation removed the entry of the table for the schema and the
\* one without a schema, or removed one and left the other schema's entry
\* or the key that does not decode.
C6_Witness ==
    /\ obs.op = "invalidate"
    /\ \/ obs.removed = 2
       \/ /\ obs.removed = 1
          /\ \/ MapHas(queryCache, MalformedKey)
             \/ MapHas(queryCache, generateCacheKey("describe_table",
                                                    DescribeBody("prod", "orders")))

\* An entry of the store whose TTL has elapsed.
HasExpired == \E i \in 1..Len(queryCache) : now - queryCache[i].timestamp > queryCache[i].ttl

\* C25: on a client with caching enabled every entry whose TTL has elapsed
\* is removed in the end, whether or not its key is read again, and a sweep
\* of the timer removes the entries whose TTL has elapsed and leaves every
\* other entry in place.
C25_SweepLiveness ==
    /\ (enableCache /\ HasExpired) ~> ~HasExpired
    /\ [][ (obs'.op = "cleanup") =>
             /\ \A i \in 1..Len(queryCache) :
                    (now - queryCache[i].timestamp <= queryCache[i].ttl) <=>
                        (\E k \in 1..Len(queryCache') : queryCache'[k] = queryCache[i])
             /\ \A k \in 1..Len(queryCache') :
                    \E i \in 1..Len(queryCache) : queryCache[i] = queryCache'[k] ]_vars

\* A sweep has just removed one entry and left another, unexpired, in place.
C25_Witness ==
    /\ enableCache
    /\ obs.op = "cleanup"
    /\ obs.removed = 1
    /\ Len(queryCache) = 1
    /\ now - queryCache[1].timestamp = queryCache[1].ttl

(***************************************************************************)
(* Claims about the data operations (checked under Spec)                   *)
(***************************************************************************)

\* C5: in every reachable state the store holds at most maxCacheSize
\* entries, and no two entries have the same key.
C5_CapacityInvariant ==
    /\ Len(queryCache) <= maxCacheSize
    /\ \A i, j \in 1..Len(queryCache) :
           queryCache[i].key = queryCache[j].key => i = j

\* C8: with caching enabled, when select(T) has populated the store and an
\* insert into T called after that has succeeded, the next select(T) is
\* not answered from the store (its entry is in stale when it is called, so
\* it must go to the transport).
C8_ReadAfterWriteFreshness ==
    (last.kind = "read" /\ last.method = "select" /\ last.stale) => ~last.cached

\* The store holds an entry of a request naming the table, with the schema
\* or with no schema.
HoldsEntryNaming(c, table, schemaName) ==
    \E i \in 1..Len(c) : \E q \in SelectRequests :
        ClientKeyOf[q] = c[i].key /\ NamesTable(q, table, schemaName)

\* C9: insert, update, upsert and delete each send one request of the
\* same-named operation for the current schema and the table; when it
\* succeeds the method returns with no entry left that names the table with
\* that schema or with no schema; when it fails the error propagates and
\* the store is unchanged.
C9_SingleWritesInvalidate ==
    last.kind = "write" =>
        /\ last.operation = last.method
        /\ last.sentSchema = last.schemaAtCall
        /\ last.ok => ~HoldsEntryNaming(queryCache, last.table, last.sentSchema)
        /\ ~last.ok => last.threw /\ last.untouched

(***************************************************************************)
(* Claims about bulk writes (checked under SpecBulk)                       *)
(***************************************************************************)

\* C10: a bulk write in which at least one group succeeded has invalidated
\* the table exactly once when it returns, and every group that succeeded
\* had done so when the invalidation was made.
C10_BulkInvalidation ==
    (job.phase = "completed" /\ job.okGroups # {}) =>
        /\ Len(job.invalidations) = 1
        /\ job.invalidations[1] = job.okGroups

\* The records of the groups that failed, each with its group's message.
FailedRecords(j) ==
    UNION { { [index |-> BatchOf(j, r.group)[idx], error |-> r.message] :
                idx \in 1..Len(BatchOf(j, r.group)) } : r \in j.rejected }

\* C11: a bulk write of N records returns successful + failed = N with
\* failed the number of records in the groups that failed; errors holds
\* exactly one entry per record of a failed group, with the record's input
\* position as index and the group's message as error, and is omitted when
\* no group failed.
C11_BatchAccounting ==
    job.phase = "completed" =>
        LET res == BulkResult(job)
        IN  /\ res.successful + res.failed = job.n
            /\ res.failed = Cardinality(FailedRecords(job))
            /\ Len(res.errors) = res.failed
            /\ { res.errors[k] : k \in 1..Len(res.errors) } = FailedRecords(job)
            /\ res.hasErrors <=> job.rejected # {}

\* insertManyParallel of three records with batchSize 1 and concurrency 2
\* returned after the second group failed and the others succeeded.
C11_Witness ==
    /\ job.phase = "completed"
    /\ job.kind = "insertManyParallel"
    /\ job.n = 3 /\ job.batchSize = 1 /\ job.concurrency = 2
    /\ job.okGroups = {0, 2}
    /\ BulkResult(job).successful = 2
    /\ BulkResult(job).failed = 1
    /\ BulkResult(job).errors = <<[index |-> 1, error |-> "e1"]>>

\* C12: a bulk write never throws, whatever groups fail: while it runs a
\* group is in flight, and when it has returned (with a result object)
\* every group has been sent, once and in input order, so the failure of a
\* group kept no later group from being sent.
C12_BulkNeverRaises ==
    /\ job.phase \in {"none", "running", "completed"}
    /\ job.phase = "running" => job.inflight # {}
    /\ job.phase = "completed" =>
          /\ job.sent = [k \in 1..Len(job.batches) |-> k - 1]
          /\ BulkResult(job).successful + BulkResult(job).failed = job.n
    /\ \A r \in job.rejected :
          job.phase = "running" \/ \A b \in 0..(Len(job.batches) - 1) :
              \E k \in 1..Len(job.sent) : job.sent[k] = b

\* updateMany or deleteMany returned after every one of its three groups
\* failed.
C12_Witness ==
    /\ job.phase = "completed"
    /\ job.kind \in {"updateMany", "deleteMany"}
    /\ Len(job.batches) = 3
    /\ job.okGroups = {}
    /\ Cardinality(job.rejected) = 3

\* C34 (as stated): in the result of every bulk operation the errors
\* list is in strictly ascending index order, whatever the order in which
\* the groups of a wave settle.
C34_ErrorsAscending ==
    job.phase = "completed" =>
        LET errors == BulkResult(job).errors
        IN  \A k \in 1..(Len(errors) - 1) : errors[k].index < errors[k + 1].index

\* The wave of group b in a job: the round of the loop that posts it.
WaveOf(j, b) == b \div j.concurrency

GroupSettled(j, b) == b \in j.okGroups \/ \E r \in j.rejected : r.group = b

\* C13: insertManyParallel and upsertMany post their groups in input order
\* in waves of at most concurrency groups; a group is posted only when
\* every group of the waves before it has settled, so at most concurrency
\* groups are in flight.
C13_WaveOrdering ==
    job.kind \in ParallelMethods =>
        /\ job.sent = [k \in 1..Len(job.sent) |-> k - 1]
        /\ Cardinality(job.inflight) <= job.concurrency
        /\ \A k \in 1..Len(job.sent) :
              \/ job.sent[k] \in job.inflight
              \/ GroupSettled(job, job.sent[k])
        /\ \A k1, k2 \in 1..Len(job.sent) :
              WaveOf(job, job.sent[k1]) < WaveOf(job, job.sent[k2])
                  => GroupSettled(job, job.sent[k1])
        /\ \A b \in job.inflight : ~GroupSettled(job, b)

\* The second wave of a job of three groups with concurrency 2 is in
\* flight, after a group of the first wave failed.
C13_Witness ==
    /\ job.kind \in ParallelMethods
    /\ job.phase = "running"
    /\ job.concurrency = 2
    /\ Len(job.batches) = 3
    /\ job.sent = <<0, 1, 2>>
    /\ job.inflight = {2}
    /\ job.rejected # {}


\* C23: when every group send settles, a bulk job with batchSize >= 1 and
\* concurrency >= 1 goes from the call through its waves in order (the loop
\* variable only moves forward, by one wave at a time, and only when the
\* wave in flight has settled), posts each group exactly once, has no state
\* other than running and completed once called, and reaches completed.
C23_JobTermination ==
    /\ [](job.phase \in {"none", "running", "completed"})
    /\ [][ /\ job.phase = "completed" => job' = job
           /\ job.phase = "running" =>
                 \/ job'.i = job.i /\ job'.sent = job.sent
                 \/ /\ job.inflight \subseteq { b \in 0..(MaxRecords - 1) : GroupSettled(job', b) }
                    /\ job'.i = job.i + (IF job.kind \in ParallelMethods
                                          THEN job.concurrency ELSE 1)
                    /\ Len(job'.sent) >= Len(job.sent)
                    /\ SubSeq(job'.sent, 1, Len(job.sent)) = job.sent
                    /\ \A k \in (Len(job.sent) + 1)..Len(job'.sent) :
                           job'.sent[k] = job'.i + (k - Len(job.sent) - 1) ]_vars
    /\ [](job.phase = "completed" =>
            \A b \in 0..(Len(job.batches) - 1) :
                Cardinality({ k \in 1..Len(job.sent) : job.sent[k] = b }) = 1)
    /\ (job.phase = "running") ~> (job.phase = "completed")

\* upsertMany of three records in three groups, one group to a wave, has
\* completed after a rejected group.
C23_Witness ==
    /\ job.phase = "completed"
    /\ job.kind = "upsertMany"
    /\ job.concurrency = 1
    /\ Len(job.batches) = 3
    /\ job.i = 3
    /\ job.rejected # {}
    /\ job.okGroups # {}

(***************************************************************************)
(* Claims about parallel (checked under SpecParallel)                      *)
(***************************************************************************)

\* The message of the error operation k failed with.
FailureMessage(p, k) ==
    IF KnownType(p.queries[k]) THEN OpErrors[k] ELSE UnknownQueryType

\* C14 (as stated): parallel launches at most `concurrency` operations at a
\* time, where concurrency is options.concurrency or, when not given, the
\* pool size: the number of operations in flight together never exceeds it.
C14_ConcurrencyBound ==
    par.maxInflight <= par.concurrency

\* C15 (as stated): with failFast false parallel never throws, and when it
\* returns, successful + failed is the number of operations, failed is the
\* number of operations that failed, and the result of every operation that
\* failed is a placeholder carrying that operation's error message.
C15_ParallelCollectsFailures ==
    ~par.failFast =>
        /\ par.phase # "threw"
        /\ par.phase = "returned" =>
              LET res == ParallelResult(par)
              IN  /\ res.successful + res.failed = Len(par.queries)
                  /\ res.failed = Cardinality(par.requestFailed)
                  /\ \A k \in par.requestFailed :
                         res.results[k] = [data |-> "null", error |-> FailureMessage(par, k)]

\* C16 (as stated): with failFast true, once an operation has failed
\* parallel has rejected with the error of the first operation that failed.
C16_FailFastRejects ==
    (par.failFast /\ par.firstFailed # 0) =>
        /\ par.phase = "threw"
        /\ par.error = FailureMessage(par, par.firstFailed)

\* C33 (as stated): with failFast false, in the result of parallel
\* successful is the number of operations whose request succeeded and
\* failed the number of operations whose request failed, for every type
\* of operation, select included.  Stated for calls whose operations all
\* have a known type, so that every operation has a request.
C33_ParallelCountsTruthful ==
    ( /\ ~par.failFast
      /\ par.phase = "returned"
      /\ \A k \in 1..Len(par.queries) : KnownType(par.queries[k]) ) =>
        LET res == ParallelResult(par)
        IN  /\ res.failed = Cardinality(par.requestFailed)
            /\ res.successful = Len(par.queries) - Cardinality(par.requestFailed)

(***************************************************************************)
(* Claims about executeQuery (checked under SpecExec)                      *)
(***************************************************************************)

\* The call is a read whose operation is on the allow-list of
\* generateCacheKey.
Eligible(call) ==
    /\ call.method \in ReadMethods
    /\ ClientKeyOf[MethodRequest(call.method, schema, call.table)] # EmptyKey

\* The call was answered from the store, without a post.
ServedFromCache(call) ==
    /\ call.st = "returned"
    /\ ~call.posted
    /\ call.result.cached

\* C17 (as stated): options.useCache overrides enableCache in both
\* directions.  A call with useCache false on a client with caching enabled
\* neither reads nor writes the store: it posts its request and leaves the
\* store as it was.  On a client with caching disabled, the second of two
\* identical cache-eligible reads with useCache true, made within the TTL,
\* is served from the store.
C17_UseCacheOverrides ==
    /\ (exec.st # "idle" /\ exec.useCacheOpt = "false" /\ enableCache) =>
          /\ exec.posted
          /\ exec.untouched
    /\ (exec.useCacheOpt = "true" /\ ~enableCache /\ exec.repeat /\ Eligible(exec)) =>
          ServedFromCache(exec)

\* C18: when executeQuery uses the cache and the store holds an entry under
\* the key of the request that has not expired, the call returns without
\* posting and without failing, the store is left as it was, and the
\* response is the entry's message and data with metadata.cached true and
\* metadata.executionTime the execution time stored with the entry.
C18_CacheHitPath ==
    (exec.st # "idle" /\ exec.useCache /\ exec.fresh) =>
        /\ exec.st = "returned"
        /\ ~exec.posted
        /\ exec.untouched
        /\ MapHas(queryCache, exec.cacheKey)
        /\ LET stored == MapGet(queryCache, exec.cacheKey).data
           IN  /\ exec.result.message = stored.message
               /\ exec.result.data = stored.data
               /\ exec.result.executionTime = stored.executionTime
               /\ exec.result.cached

C18_Witness ==
    /\ exec.st = "returned"
    /\ exec.method = "describeTable"
    /\ exec.useCache
    /\ exec.fresh
    /\ exec.result = HarperDBResponse("ok", "p1", 1, TRUE)

\* C19 (as stated): generateCacheKey gives the empty key to an operation
\* outside the allow-list and a non-empty key to every read the client
\* issues (search, get by key, raw query, describe, list); with caching
\* enabled, a getByHash or getByHashes repeated for the same table and keys
\* within the TTL is served from the store.
C19_CacheEligibility ==
    /\ (exec.st # "idle" /\ exec.method \notin ReadMethods) => exec.cacheKey = EmptyKey
    /\ (exec.st # "idle" /\ exec.method \in ReadMethods /\ exec.useCache) =>
          exec.cacheKey # EmptyKey
    /\ (exec.method \in {"getByHash", "getByHashes"} /\ enableCache
          /\ exec.useCacheOpt # "false" /\ exec.repeat) =>
          ServedFromCache(exec)

\* C20: when the post of executeQuery is rejected, executeQuery throws
\* 'HarperDB query failed: <detail>' and returns no value; detail is the
\* error field of the error's response body if it has one, else the body's
\* message field, else the error's own message, else 'Unknown error'.
\* executeQuery throws in no other case.
C20_FailureSurfacing ==
    /\ exec.st = "threw" =>
          /\ exec.posted
          /\ exec.result = NoResponse
          /\ LET f == exec.failure
                 detail == IF f.bodyError # "" THEN f.bodyError
                           ELSE IF f.bodyMessage # "" THEN f.bodyMessage
                           ELSE IF f.message # "" THEN f.message
                           ELSE "Unknown error"
             IN  exec.error = "HarperDB query failed: " \o detail
    /\ exec.st # "threw" => (exec.error = "" /\ exec.failure = NoFailure)

C20_Witness ==
    /\ exec.st = "threw"
    /\ exec.failure = [bodyError |-> "be", bodyMessage |-> "bm", message |-> "em"]
    /\ exec.error = "HarperDB query failed: be"

\* C32: failures are never cached.  An entry enters the store, or the
\* entry of a key changes, only in the step in which the post of a call
\* resolves; the step in which the post rejects leaves the store as it
\* is; and after a call has thrown the store holds no entry under its key,
\* so that executeQuery called again with the same request misses and
\* posts it.
C32_FailuresNeverCached ==
    /\ [][ /\ (\E i \in 1..Len(queryCache') :
                 \A j \in 1..Len(queryCache) : queryCache[j] # queryCache'[i])
              => ( exec.st = "waiting" /\ exec.posted /\ exec'.st = "returned" )
           /\ exec'.st = "threw" => queryCache' = queryCache ]_vars
    /\ [](exec.st = "threw" =>
            /\ exec.posted
            /\ ~MapHas(queryCache, exec.cacheKey)
            /\ ~executeQueryStart(MethodRequest(exec.method, schema, exec.table),
                                  exec.useCacheOpt).hit)

\* A cache-eligible read was posted and rejected while the store held the
\* response of another request.
C32_Witness ==
    /\ exec.st = "threw"
    /\ exec.useCache
    /\ exec.cacheKey # EmptyKey
    /\ enableCache
    /\ queryCache # <<>>

(***************************************************************************)
(* Claims about applySchema (checked under SpecApply)                      *)
(***************************************************************************)

\* C26: the mutate-then-restore of the schema is not safe under
\* concurrency.  A data operation issued while applySchema is suspended in
\* one of the awaits it makes with the schema of the type set is sent
\* against the schema of that type, whatever the schema was when
\* applySchema was called.  C26_Witness is the interleaving the claim
\* speaks of: applySchema was called without force, and the request of the
\* data operation carries a schema that is not the one the client was
\* configured with.
C26_SchemaRace ==
    [][ \A c \in Callers :
          ( /\ calls[c].st = "idle"
            /\ calls'[c].st = "waiting"
            /\ apply.phase = "running"
            /\ apply.pc \in TemporarySchemaAwaits )
          => /\ calls'[c].sentSchema = apply.types[apply.t].schema
             /\ calls'[c].schemaAtCall = apply.types[apply.t].schema ]_vars

C26_Witness ==
    /\ apply.phase = "running"
    /\ apply.pc \in TemporarySchemaAwaits
    /\ ~apply.force
    /\ apply.schemaAtCall = "dev"
    /\ calls["c1"].st = "waiting"
    /\ calls["c1"].sentSchema = "prod"

\* C27 (as stated): when no other call changes the schema, the schema
\* after applySchema returned is the schema before it was called, for
\* every combination of force and skipExisting and whichever of its
\* requests fail.
C27_SchemaRestored ==
    apply.phase = "returned" => schema = apply.schemaAtCall

(***************************************************************************)
(* Claims about callers sharing the store (checked under SpecRace)         *)
(***************************************************************************)

\* C28 (as stated): with caching enabled every call of a data-modifying
\* method has its modifying request handed to the transport, also when an
\* identical call was made within the TTL: no write that returned was
\* answered without a send.
C28_WritesReachTransport ==
    \A c \in RaceCallers :
        LET op == race.ops[c]
        IN  ( /\ op.st = "returned"
              /\ op.method \in {"update", "updateByValue"} )
            => op.posted /\ ~op.cached

\* C29 (as stated): once the invalidation of a successful write to the
\* table has run, the store holds no entry for the table whose response
\* answers a request that was sent before the write completed.
C29_NoStaleWriteBack ==
    \A i \in 1..Len(queryCache) : queryCache[i].key \notin race.early

\* C30 (as stated): the payload of an entry is the data the transport
\* delivered on the miss that stored it, content and order, and a select
\* that is answered from the cache and asks for no order returns exactly
\* that data.
C30_CachedPayloadStable ==
    /\ \A i \in 1..Len(queryCache) :
          <<queryCache[i].key, queryCache[i].data>> \in race.received
    /\ \A c \in RaceCallers :
          LET op == race.ops[c]
          IN  ( /\ op.st = "returned"
                /\ op.method = "select"
                /\ op.cached
                /\ op.direction = "none" )
              => op.data = op.wire

(***************************************************************************)
(* Claims about batch (checked under SpecBatch)                            *)
(***************************************************************************)

\* the wave of operation k
BatchWaveOf(b, k) == (k - 1) \div b.concurrency

C35_FailFastWitness ==
    /\ bat.phase = "threw"
    /\ bat.failFast
    /\ bat.n = 3
    /\ bat.concurrency = 2
    /\ bat.ops[3].st = "unstarted"

(***************************************************************************)
(* Claims about transaction (checked under SpecTxn)                        *)
(***************************************************************************)

\* the first m results, each with the position of its operation
TxnOutcomes(m) == { <<j, txn.results[j]>> : j \in 1..m }

=========================================================================
